---- MODULE Spec2Model ----
(***************************************************************************)
(* Model of the rule-evaluation engine of eligibility-rules                *)
(* (assets/js/validation-engine.js, class ValidationEngine).               *)
(*                                                                         *)
(* JavaScript values are tagged records [t, n, s]: t is the typeof tag     *)
(* ("undefined", "null", "boolean", "number", "string"), n the numeric     *)
(* payload (booleans: 1/0) and s the string payload.  Strict equality ===  *)
(* on these primitives is record equality.  An absent property of a rule   *)
(* or of the attribute mapping is a field outside the record's DOMAIN and  *)
(* reads as Undefined.                                                     *)
(***************************************************************************)
EXTENDS Integers, Sequences, FiniteSets, TLC

VARIABLES
    ruleset,      \* the ruleset handed to validate
    attributes,   \* the attribute mapping handed to validate
    options,      \* this.options
    eventLog,     \* this.eventLog
    result,       \* what the last validate call returned
    status,       \* "idle" | "returned" | "threw": how the last call ended
    clock,        \* Date.now()
    callbackLog,  \* the calls of options.eventCallback, in order: the event
                  \* handed over and the log as it was at that moment
    calls,        \* number of validate calls made on the engine
    trace,        \* what the last walk entered and evaluated
    history,      \* every validate call so far: its inputs and how it ended
    snapshot,     \* what the last getEventLog call returned
    probe,        \* one direct call of evaluateCondition: arguments and answer
    givenOptions, \* the options object the constructor was called with
    exported,     \* what the last exportEvents call returned
    aliased,      \* the list getEventLog returned is this.eventLog itself
    peer,         \* a second engine instance: its options and its eventLog
    stack,        \* a walk taken rule by rule: the loops in progress
    walk          \* a walk taken rule by rule: what it has done so far

vars == <<ruleset, attributes, options, eventLog, result, status, clock,
          callbackLog, calls, trace, history, snapshot, probe, givenOptions,
          exported, aliased, peer, stack, walk>>

-----------------------------------------------------------------------------
(* JavaScript values *)

Undefined == [t |-> "undefined", n |-> 0, s |-> ""]
Null      == [t |-> "null", n |-> 0, s |-> ""]
Num(i)    == [t |-> "number", n |-> i, s |-> ""]
Str(x)    == [t |-> "string", n |-> 0, s |-> x]
Bool(b)   == [t |-> "boolean", n |-> IF b THEN 1 ELSE 0, s |-> ""]
Func(x)   == [t |-> "function", n |-> 0, s |-> x]

\* obj.f for a property that may be absent
Get(obj, f) == IF f \in DOMAIN obj THEN obj[f] ELSE Undefined

\* ToBoolean: the truthiness used by if (...), || and ?:
Truthy(v) ==
    CASE v.t = "undefined" -> FALSE
      [] v.t = "null"      -> FALSE
      [] v.t = "boolean"   -> v.n = 1
      [] v.t = "number"    -> v.n # 0
      [] v.t = "string"    -> v.s # ""
      [] v.t = "function"  -> TRUE

\* String(v), also the conversion of ${v} in a template literal
ToStr(v) ==
    CASE v.t = "undefined" -> "undefined"
      [] v.t = "null"      -> "null"
      [] v.t = "boolean"   -> IF v.n = 1 THEN "true" ELSE "false"
      [] v.t = "number"    -> ToString(v.n)
      [] v.t = "string"    -> v.s

Digits == <<"0", "1", "2", "3", "4", "5", "6", "7", "8", "9">>
IsDigit(c)  == \E i \in 1..10 : Digits[i] = c
DigitVal(c) == (CHOOSE i \in 1..10 : Digits[i] = c) - 1
IsSpace(c)  == c = " "

RECURSIVE TrimLeft(_)
TrimLeft(x) ==
    IF Len(x) > 0 /\ IsSpace(SubSeq(x, 1, 1))
    THEN TrimLeft(SubSeq(x, 2, Len(x))) ELSE x

RECURSIVE TrimRight(_)
TrimRight(x) ==
    IF Len(x) > 0 /\ IsSpace(SubSeq(x, Len(x), Len(x)))
    THEN TrimRight(SubSeq(x, 1, Len(x) - 1)) ELSE x

AllDigits(x) == \A i \in 1..Len(x) : IsDigit(SubSeq(x, i, i))

RECURSIVE DigitsValue(_, _)
DigitsValue(x, acc) ==
    IF Len(x) = 0 THEN acc
    ELSE DigitsValue(SubSeq(x, 2, Len(x)), 10 * acc + DigitVal(SubSeq(x, 1, 1)))

\* A number as Number(v) yields it: NaN, or an integer
NaN      == [nan |-> TRUE, n |-> 0]
Finite(i) == [nan |-> FALSE, n |-> i]

\* StringToNumber of a string without surrounding blanks, on integer literals:
\* the empty string is 0, an optional sign is followed by digits, anything
\* else is NaN
Unsigned(u) == IF Len(u) = 0 \/ ~AllDigits(u) THEN NaN ELSE Finite(DigitsValue(u, 0))
Negated(v) == IF v.nan THEN NaN ELSE Finite(0 - v.n)
TrimmedToNumber(u) ==
    IF Len(u) = 0 THEN Finite(0)
    ELSE IF SubSeq(u, 1, 1) = "-" THEN Negated(Unsigned(SubSeq(u, 2, Len(u))))
    ELSE IF SubSeq(u, 1, 1) = "+" THEN Unsigned(SubSeq(u, 2, Len(u)))
    ELSE Unsigned(u)

\* StringToNumber: surrounding blanks are dropped first
StringToNumber(x) == TrimmedToNumber(TrimRight(TrimLeft(x)))

\* Number(v)
ToNumber(v) ==
    CASE v.t = "undefined" -> NaN
      [] v.t = "null"      -> Finite(0)
      [] v.t = "boolean"   -> Finite(v.n)
      [] v.t = "number"    -> Finite(v.n)
      [] v.t = "string"    -> StringToNumber(v.s)

\* the relational operators on Number results: any comparison with NaN is false
NumLT(a, b) == ~a.nan /\ ~b.nan /\ a.n < b.n
NumLE(a, b) == ~a.nan /\ ~b.nan /\ a.n <= b.n
NumGT(a, b) == ~a.nan /\ ~b.nan /\ a.n > b.n
NumGE(a, b) == ~a.nan /\ ~b.nan /\ a.n >= b.n

\* Array.prototype.includes on primitives (SameValueZero, no NaN here)
Includes(arr, v) == \E i \in 1..Len(arr) : arr[i] = v

\* The regular expressions the model's rulesets use.  new RegExp(p) throws a
\* SyntaxError for an unterminated character class or group.
PatternValid(p) == p \notin {"[", "("}

\* new RegExp(p).test(x) for the valid patterns
RegExpTest(p, x) ==
    CASE p = "^[0-9]+$" -> Len(x) > 0 /\ AllDigits(x)
      [] p = "^6"       -> Len(x) > 0 /\ SubSeq(x, 1, 1) = "6"
      [] OTHER          -> FALSE

-----------------------------------------------------------------------------
(* evaluateCondition *)

Return(v) == [kind |-> "return", val |-> v]
Throw     == [kind |-> "throw", val |-> Undefined]

\* the four numeric comparisons on operands already converted by Number
Compare(operator, a, b) ==
    CASE operator = "less_than" -> NumLT(a, b)
      [] operator = "less_than_or_equal" -> NumLE(a, b)
      [] operator = "greater_than" -> NumGT(a, b)
      [] operator = "greater_than_or_equal" -> NumGE(a, b)

\* between with both bounds excluded
BetweenExclusive(num, min, max) == NumGT(num, min) /\ NumLT(num, max)

\* num >= Number(rule.min) && num <= Number(rule.max)
Between(num, min, max) == NumGE(num, min) /\ NumLE(num, max)

\* new RegExp(pattern).test(String(value))
Matches(pattern, x) ==
    IF PatternValid(pattern) THEN Return(Bool(RegExpTest(pattern, x))) ELSE Throw

\* the default case answering with an exception
UnknownOperatorThrows(operator) == Throw

\* default: console.warn(`Unknown operator: ${operator}`); return false
UnknownOperator(operator) == Return(Bool(FALSE))

evaluateCondition(rule, value) ==
    CASE rule.operator = "equals" -> Return(Bool(value = Get(rule, "value")))
      [] rule.operator = "not_equals" -> Return(Bool(value # Get(rule, "value")))
      [] rule.operator \in {"less_than", "less_than_or_equal",
                            "greater_than", "greater_than_or_equal"} ->
            Return(Bool(Compare(rule.operator, ToNumber(value),
                                ToNumber(Get(rule, "value")))))
      [] rule.operator = "in" ->
            IF "values" \in DOMAIN rule
            THEN Return(Bool(Includes(rule.values, value)))
            ELSE Return(Undefined)
      [] rule.operator = "not_in" ->
            IF "values" \in DOMAIN rule
            THEN Return(Bool(~Includes(rule.values, value)))
            ELSE Return(Bool(TRUE))
      [] rule.operator = "between" ->
            Return(Bool(Between(ToNumber(value), ToNumber(Get(rule, "min")),
                                ToNumber(Get(rule, "max")))))
      [] rule.operator = "exists" ->
            Return(Bool(value # Undefined /\ value # Null))
      [] rule.operator = "not_exists" ->
            Return(Bool(value = Undefined \/ value = Null))
      [] rule.operator = "matches" ->
            IF "value" \in DOMAIN rule
            THEN Matches(ToStr(rule.value), ToStr(value))
            ELSE Return(Bool(TRUE))
      [] OTHER -> UnknownOperator(rule.operator)

-----------------------------------------------------------------------------
(* describeExpectation *)

\* Array.prototype.join(', '): null and undefined elements join as ''
RECURSIVE Join(_, _)
Join(arr, i) ==
    IF i > Len(arr) THEN ""
    ELSE (IF arr[i] \in {Undefined, Null} THEN "" ELSE ToStr(arr[i]))
         \o (IF i < Len(arr) THEN ", " ELSE "")
         \o Join(arr, i + 1)

\* `${values?.join(', ')}`
JoinedValues(rule) ==
    IF "values" \in DOMAIN rule THEN Join(rule.values, 1) ELSE "undefined"

\* const unitStr = unit ? ` ${unit}` : ''
UnitStr(unit) == IF Truthy(unit) THEN " " \o ToStr(unit) ELSE ""

\* every operator that shows rule.value worded as equals is worded
ValueExpectationBare(operator, value, unitStr) == Str(value \o unitStr)

\* the expectation of the operators that show rule.value
ValueExpectation(operator, value, unitStr) ==
    CASE operator = "equals" -> Str(value \o unitStr)
      [] operator = "not_equals" -> Str("not " \o value \o unitStr)
      [] operator = "less_than" -> Str("< " \o value \o unitStr)
      [] operator = "less_than_or_equal" -> Str("<= " \o value \o unitStr)
      [] operator = "greater_than" -> Str("> " \o value \o unitStr)
      [] operator = "greater_than_or_equal" -> Str(">= " \o value \o unitStr)

describeExpectation(rule) ==
    CASE rule.operator \in {"equals", "not_equals", "less_than",
                            "less_than_or_equal", "greater_than",
                            "greater_than_or_equal"} ->
            ValueExpectation(rule.operator, ToStr(Get(rule, "value")),
                             UnitStr(Get(rule, "unit")))
      [] rule.operator = "in" -> Str("one of [" \o JoinedValues(rule) \o "]")
      [] rule.operator = "not_in" ->
            Str("not one of [" \o JoinedValues(rule) \o "]")
      [] rule.operator = "between" ->
            Str("between " \o ToStr(Get(rule, "min")) \o " and "
                \o ToStr(Get(rule, "max")) \o UnitStr(Get(rule, "unit")))
      [] rule.operator = "exists" -> Str("exists")
      [] rule.operator = "not_exists" -> Str("does not exist")
      [] OTHER -> Get(rule, "value")

-----------------------------------------------------------------------------
(* evaluateRule *)

\* attributes[key]
Lookup(attrs, key) == IF key \in DOMAIN attrs THEN attrs[key] ELSE Undefined

\* `${rule.label || rule.key}`
LabelOrKey(rule) ==
    IF Truthy(Get(rule, "label")) THEN ToStr(rule.label) ELSE rule.key

\* the message synthesized even when the rule has a description
ErrorMessageSynthesized(rule) ==
    Str("Does not meet " \o LabelOrKey(rule) \o " requirement")

\* rule.description || `Does not meet ${rule.label || rule.key} requirement`
ErrorMessage(rule) ==
    IF Truthy(Get(rule, "description")) THEN rule.description
    ELSE Str("Does not meet " \o LabelOrKey(rule) \o " requirement")

SkippedRecord(rule) ==
    [id |-> rule.id, key |-> rule.key, label |-> Get(rule, "label"),
     reason |-> "missing_attribute",
     message |-> Str("Missing required attribute: " \o rule.key)]

PassedRecord(rule, value) ==
    [id |-> rule.id, key |-> rule.key, label |-> Get(rule, "label"),
     value |-> value]

AlternativeRecord(rule, value) ==
    [id |-> rule.id, key |-> rule.key, label |-> Get(rule, "label"),
     value |-> value, satisfied_by |-> "alternative"]

DisqualifyingRecord(rule, value) ==
    [id |-> rule.id, key |-> rule.key, label |-> Get(rule, "label"),
     value |-> value, expected |-> describeExpectation(rule),
     message |-> Str("Disqualifying condition: " \o LabelOrKey(rule)),
     severity |-> "disqualifying"]

FailedRecord(rule, value) ==
    [id |-> rule.id, key |-> rule.key, label |-> Get(rule, "label"),
     value |-> value, expected |-> describeExpectation(rule),
     message |-> Str("Requirement not met: " \o LabelOrKey(rule))]

ErrorRecord(rule) == [field |-> rule.key, message |-> ErrorMessage(rule)]

\* the missing-value test without its exception for not_exists
MissingValueAnyOperator(rule, value) == value = Undefined

\* if (value === undefined && rule.operator !== 'not_exists')
MissingValue(rule, value) == value = Undefined /\ rule.operator # "not_exists"

\* the missing-value branch reporting the missing attribute in errors too
SkipBranchReportsError(rule, res) ==
    IF Get(rule, "requirement") # Str("optional")
    THEN [res EXCEPT !.skipped = Append(@, SkippedRecord(rule)),
                     !.errors = Append(@, [field |-> rule.key,
                                           message |-> SkippedRecord(rule).message])]
    ELSE res

\* the missing-value branch recording a failure, as its comment says
SkipBranchFails(rule, res) ==
    IF Get(rule, "requirement") # Str("optional")
    THEN [res EXCEPT !.failed = Append(@, FailedRecord(rule, Undefined)),
                     !.errors = Append(@, ErrorRecord(rule))]
    ELSE res

\* the missing-value branch: a skipped record unless the rule is optional
SkipBranch(rule, res) ==
    IF Get(rule, "requirement") # Str("optional")
    THEN [res EXCEPT !.skipped = Append(@, SkippedRecord(rule))]
    ELSE res

\* result.passed.push(...) of a rule whose own condition holds
PassBranch(rule, value, res) ==
    [res EXCEPT !.passed = Append(@, PassedRecord(rule, value))]

\* evaluateRule without the "requirement !== 'optional'" test of the second
\* failure branch
FailureBranchRecordsOptional(rule, value, res) ==
    IF Get(rule, "requirement") = Str("disqualifying")
    THEN [res EXCEPT !.failed = Append(@, DisqualifyingRecord(rule, value)),
                     !.errors = Append(@, ErrorRecord(rule))]
    ELSE [res EXCEPT !.failed = Append(@, FailedRecord(rule, value)),
                     !.errors = Append(@, ErrorRecord(rule))]

\* the "Rule failed" branch: classification by requirement
FailureBranch(rule, value, res) ==
    IF Get(rule, "requirement") = Str("disqualifying")
    THEN [res EXCEPT !.failed = Append(@, DisqualifyingRecord(rule, value)),
                     !.errors = Append(@, ErrorRecord(rule))]
    ELSE IF Get(rule, "requirement") # Str("optional")
    THEN [res EXCEPT !.failed = Append(@, FailedRecord(rule, value)),
                     !.errors = Append(@, ErrorRecord(rule))]
    ELSE res

\* evaluateRule without the return that ends the alternative branch
AlternativeBranchFallsThrough(rule, value, res) ==
    FailureBranch(rule, value,
        [res EXCEPT !.passed = Append(@, AlternativeRecord(rule, value))])

\* if (anyPassed) { result.passed.push(...); return; }
AlternativeBranch(rule, value, res) ==
    [res EXCEPT !.passed = Append(@, AlternativeRecord(rule, value))]

\* One step of rule.any_of.some(...): c is the answer of evaluateCondition
\* for alternative i, seen the alternatives evaluated so far.
RECURSIVE SomeAlternative(_, _, _, _)
SomeStep(any_of, i, attrs, seen, c) ==
    IF c.kind = "throw" THEN [kind |-> "throw", val |-> Undefined, seen |-> seen]
    ELSE IF Truthy(c.val) THEN [kind |-> "return", val |-> Bool(TRUE), seen |-> seen]
    ELSE SomeAlternative(any_of, i + 1, attrs, seen)

\* some() passing over an alternative whose attribute is missing, as
\* evaluateRule passes over a rule
SomeAlternativeGuarded(any_of, i, attrs, seen) ==
    IF i > Len(any_of) THEN [kind |-> "return", val |-> Bool(FALSE), seen |-> seen]
    ELSE IF MissingValue(any_of[i], Lookup(attrs, any_of[i].key))
    THEN SomeAlternative(any_of, i + 1, attrs, seen)
    ELSE SomeStep(any_of, i, attrs, Append(seen, any_of[i].id),
                  evaluateCondition(any_of[i], Lookup(attrs, any_of[i].key)))

\* rule.any_of.some(alt => evaluateCondition(alt, attributes[alt.key])):
\* left to right, stopping at the first truthy answer; a throw propagates
SomeAlternative(any_of, i, attrs, seen) ==
    IF i > Len(any_of) THEN [kind |-> "return", val |-> Bool(FALSE), seen |-> seen]
    ELSE SomeStep(any_of, i, attrs, Append(seen, any_of[i].id),
                  evaluateCondition(any_of[i], Lookup(attrs, any_of[i].key)))

\* rule.any_of && rule.any_of.length > 0 ? rule.any_of.some(...) : false
AnyPassed(rule, attrs) ==
    IF "any_of" \in DOMAIN rule /\ Len(rule.any_of) > 0
    THEN SomeAlternative(rule.any_of, 1, attrs, <<>>)
    ELSE [kind |-> "return", val |-> Bool(FALSE), seen |-> <<>>]

\* The walk threads st = [res, threw, entered, evaluated, depth, deepest]:
\* res is the accumulating result object and threw tells whether an exception
\* is propagating; the rest observes the walk: the ids of the nodes
\* evaluateRule was entered for, the ids of the nodes evaluateCondition was
\* called for, the current and the deepest nesting of evaluateRule calls.
RECURSIVE evaluateRule(_, _, _)
RECURSIVE evaluateEach(_, _, _, _)

\* the loop taking the rules from the last to the first
evaluateEachReversed(rules, i, attrs, st) ==
    IF st.threw \/ i > Len(rules) THEN st
    ELSE evaluateRule(rules[i], attrs, evaluateEach(rules, i + 1, attrs, st))

\* for (const r of rules) this.evaluateRule(r, attributes, result)
evaluateEach(rules, i, attrs, st) ==
    IF st.threw \/ i > Len(rules) THEN st
    ELSE evaluateEach(rules, i + 1, attrs, evaluateRule(rules[i], attrs, st))

\* the walk on entry to evaluateRule(rule, ...)
Enter(rule, st) ==
    [st EXCEPT !.entered = Append(@, rule.id),
               !.depth = @ + 1,
               !.deepest = IF st.depth + 1 > @ THEN st.depth + 1 ELSE @]

\* the else branch of if (passed): any is the answer of any_of.some(...)
ElseBranch(rule, value, st, any) ==
    IF any.kind = "throw"
    THEN [st EXCEPT !.threw = TRUE, !.evaluated = @ \o any.seen]
    ELSE IF Truthy(any.val)
    THEN [st EXCEPT !.res = AlternativeBranch(rule, value, @),
                    !.evaluated = @ \o any.seen]
    ELSE [st EXCEPT !.res = FailureBranch(rule, value, @),
                    !.evaluated = @ \o any.seen]

\* the then branch without the loop over rule.conditions
ThenBranchShallow(rule, attrs, pushed) == pushed

\* the then branch of if (passed): the passed record, then the conditions
ThenBranch(rule, attrs, pushed) ==
    IF "conditions" \in DOMAIN rule
    THEN evaluateEach(rule.conditions, 1, attrs, pushed)
    ELSE pushed

\* evaluateRule descending into the conditions whatever the rule's outcome
EvaluateUngated(rule, attrs, value, st, cond) ==
    IF cond.kind = "throw" THEN [st EXCEPT !.threw = TRUE]
    ELSE IF Truthy(cond.val)
    THEN ThenBranch(rule, attrs, [st EXCEPT !.res = PassBranch(rule, value, @)])
    ELSE ThenBranch(rule, attrs, ElseBranch(rule, value, st, AnyPassed(rule, attrs)))

\* evaluateRule from "const passed = this.evaluateCondition(...)" on: cond is
\* the answer of evaluateCondition
Evaluate(rule, attrs, value, st, cond) ==
    IF cond.kind = "throw" THEN [st EXCEPT !.threw = TRUE]
    ELSE IF Truthy(cond.val)
    THEN ThenBranch(rule, attrs, [st EXCEPT !.res = PassBranch(rule, value, @)])
    ELSE ElseBranch(rule, value, st, AnyPassed(rule, attrs))

\* evaluateRule consulting the alternatives of a rule whose value is missing
ClassifyConsultingAlternatives(rule, attrs, value, st) ==
    IF MissingValue(rule, value)
    THEN ElseBranch(rule, value, [st EXCEPT !.res = SkipBranch(rule, @)],
                    AnyPassed(rule, attrs))
    ELSE Evaluate(rule, attrs, value,
                  [st EXCEPT !.evaluated = Append(@, rule.id)],
                  evaluateCondition(rule, value))

\* evaluateRule once value = attributes[rule.key] is read
Classify(rule, attrs, value, st) ==
    IF MissingValue(rule, value)
    THEN [st EXCEPT !.res = SkipBranch(rule, @)]
    ELSE Evaluate(rule, attrs, value,
                  [st EXCEPT !.evaluated = Append(@, rule.id)],
                  evaluateCondition(rule, value))

\* one call of evaluateRule, back at the caller's nesting when it ends
Leave(out, depth) == [out EXCEPT !.depth = depth]

evaluateRule(rule, attrs, st) ==
    Leave(Classify(rule, attrs, Lookup(attrs, rule.key), Enter(rule, st)), st.depth)

-----------------------------------------------------------------------------
(* validate, createEvent, logEvent and the log accessors *)

\* constructor: { logEvents: true, eventCallback: null, ...options }
DefaultOptions == [logEvents |-> Bool(TRUE), eventCallback |-> Null]

Construct(given) ==
    [f \in DOMAIN DefaultOptions \cup DOMAIN given |->
        IF f \in DOMAIN given THEN given[f] ELSE DefaultOptions[f]]

NoResult == [valid |-> FALSE]
NoProbe == [done |-> FALSE]
NoTrace == [entered |-> <<>>, evaluated |-> <<>>, deepest |-> 0]

\* no second instance constructed: the placeholder is a default engine
NoPeer == [options |-> DefaultOptions, givenOptions |-> <<>>, eventLog |-> <<>>]

\* no walk taken rule by rule
NoWalk == [res |-> NoResult, threw |-> FALSE, entered |-> <<>>,
           evaluated |-> <<>>, depth |-> 0, deepest |-> 0]

\* the result object with the attributes object itself as changes
NewResultAliasing(rs, attrs, now) ==
    [valid |-> TRUE, service_id |-> rs.service_id, timestamp |-> now,
     changes |-> attrs, errors |-> <<>>, passed |-> <<>>, failed |-> <<>>,
     skipped |-> <<>>, data |-> rs,
     identity |-> [changes |-> "attributes", data |-> "ruleset"]]

\* the result object validate starts from.  identity tells which object a
\* field refers to: changes: { ...attributes } is an object of its own,
\* data: ruleset is the caller's ruleset object
NewResult(rs, attrs, now) ==
    [valid |-> TRUE, service_id |-> rs.service_id, timestamp |-> now,
     changes |-> attrs, errors |-> <<>>, passed |-> <<>>, failed |-> <<>>,
     skipped |-> <<>>, data |-> rs,
     identity |-> [changes |-> "result.changes", data |-> "ruleset"]]

\* the walk continuing on the lists of the result of the call before
WalkAccumulating(rs, attrs, now) ==
    evaluateEach(rs.rules, 1, attrs,
                 [res |-> IF status = "returned"
                          THEN [NewResult(rs, attrs, now) EXCEPT
                                   !.passed = result.passed,
                                   !.failed = result.failed,
                                   !.skipped = result.skipped,
                                   !.errors = result.errors]
                          ELSE NewResult(rs, attrs, now),
                  threw |-> FALSE, entered |-> <<>>, evaluated |-> <<>>,
                  depth |-> 0, deepest |-> 0])

\* the tree walk of validate over ruleset.rules
Walk(rs, attrs, now) ==
    evaluateEach(rs.rules, 1, attrs,
                 [res |-> NewResult(rs, attrs, now), threw |-> FALSE,
                  entered |-> <<>>, evaluated |-> <<>>,
                  depth |-> 0, deepest |-> 0])

\* validate with skipped entries counted against validity
FinalizeSkippedInvalid(res, d) ==
    [f \in DOMAIN res \cup {"duration_ms"} |->
        CASE f = "valid" -> Len(res.failed) = 0 /\ Len(res.skipped) = 0
          [] f = "duration_ms" -> d
          [] OTHER -> res[f]]

\* the result validate returns when the walk took d milliseconds
Finalize(res, d) ==
    [f \in DOMAIN res \cup {"duration_ms"} |->
        CASE f = "valid" -> Len(res.failed) = 0
          [] f = "duration_ms" -> d
          [] OTHER -> res[f]]

\* the order in which the attribute mappings of the model list their keys
KeyOrder == <<"age", "income">>

\* Object.keys(result.changes): the keys in the order of the mapping
KeysOf(obj) == SelectSeq(KeyOrder, LAMBDA k : k \in DOMAIN obj)

\* createEvent counting the skipped rules with the passed ones
createEventSkippedAsPassed(res) ==
    [type |-> "validation", timestamp |-> res.timestamp,
     service_id |-> res.service_id, valid |-> res.valid,
     passed_count |-> Len(res.passed) + Len(res.skipped),
     failed_count |-> Len(res.failed),
     skipped_count |-> Len(res.skipped), duration_ms |-> res.duration_ms,
     errors |-> [i \in 1..Len(res.errors) |->
                    [field |-> res.errors[i].field,
                     message |-> res.errors[i].message]],
     attributes_provided |-> KeysOf(res.changes)]

\* createEvent keeping the value of each failed rule with its error
createEventWithValues(res) ==
    [type |-> "validation", timestamp |-> res.timestamp,
     service_id |-> res.service_id, valid |-> res.valid,
     passed_count |-> Len(res.passed), failed_count |-> Len(res.failed),
     skipped_count |-> Len(res.skipped), duration_ms |-> res.duration_ms,
     errors |-> [i \in 1..Len(res.errors) |->
                    [field |-> res.errors[i].field,
                     message |-> res.errors[i].message,
                     value |-> res.failed[i].value]],
     attributes_provided |-> KeysOf(res.changes)]

createEvent(res) ==
    [type |-> "validation", timestamp |-> res.timestamp,
     service_id |-> res.service_id, valid |-> res.valid,
     passed_count |-> Len(res.passed), failed_count |-> Len(res.failed),
     skipped_count |-> Len(res.skipped), duration_ms |-> res.duration_ms,
     errors |-> [i \in 1..Len(res.errors) |->
                    [field |-> res.errors[i].field,
                     message |-> res.errors[i].message]],
     attributes_provided |-> KeysOf(res.changes)]

\* logEvent calling the callback before the push
logEventCallbackFirst(event, pushed) ==
    /\ eventLog' = pushed
    /\ callbackLog' = IF Truthy(options.eventCallback)
                      THEN Append(callbackLog, [event |-> event, log |-> eventLog])
                      ELSE callbackLog
    /\ snapshot' = IF aliased THEN pushed ELSE snapshot
    /\ peer' = peer

\* logEvent pushing onto one array that all instances hold
logEventShared(event, pushed) ==
    /\ eventLog' = pushed
    /\ callbackLog' = IF Truthy(options.eventCallback)
                      THEN Append(callbackLog, [event |-> event, log |-> pushed])
                      ELSE callbackLog
    /\ snapshot' = IF aliased THEN pushed ELSE snapshot
    /\ peer' = [peer EXCEPT !.eventLog = pushed]

\* logEvent(event): the push, then the callback on the log as pushed.  The
\* push changes the array in place: a list that is this array changes with
\* it, the array of another instance does not.
logEvent(event, pushed) ==
    /\ eventLog' = pushed
    /\ callbackLog' = IF Truthy(options.eventCallback)
                      THEN Append(callbackLog, [event |-> event, log |-> pushed])
                      ELSE callbackLog
    /\ snapshot' = IF aliased THEN pushed ELSE snapshot
    /\ peer' = peer

\* validate logging the events of invalid results only
LogOnFailure(event) ==
    IF Truthy(options.logEvents) /\ ~event.valid
    THEN logEvent(event, Append(eventLog, event))
    ELSE UNCHANGED <<eventLog, callbackLog, snapshot, peer>>

\* validate not logging an event equal to the last one logged
LogDeduplicating(event) ==
    IF /\ Truthy(options.logEvents)
       /\ (Len(eventLog) = 0 \/ eventLog[Len(eventLog)] # event)
    THEN logEvent(event, Append(eventLog, event))
    ELSE UNCHANGED <<eventLog, callbackLog, snapshot, peer>>

\* if (this.options.logEvents) this.logEvent(event)
Log(event) ==
    IF Truthy(options.logEvents)
    THEN logEvent(event, Append(eventLog, event))
    ELSE UNCHANGED <<eventLog, callbackLog, snapshot, peer>>

\* validate after the walk that ended in st.  An exception of the walk
\* leaves validate before the result is finished, logged or returned.
Finish(rs, attrs, st, res) ==
    /\ trace' = [entered |-> st.entered, evaluated |-> st.evaluated,
                 deepest |-> st.deepest]
    /\ IF st.threw
       THEN /\ status' = "threw"
            /\ result' = NoResult
            /\ history' = Append(history, [ruleset |-> rs, attributes |-> attrs,
                                           status |-> "threw", result |-> NoResult,
                                           logged |-> Len(eventLog)])
            /\ UNCHANGED <<eventLog, callbackLog, snapshot, peer>>
       ELSE /\ status' = "returned"
            /\ result' = res
            /\ history' = Append(history, [ruleset |-> rs, attributes |-> attrs,
                                           status |-> "returned", result |-> res,
                                           logged |-> Len(eventLog)])
            /\ Log(createEvent(res))

\* result.valid, result.duration_ms of the walk that ended in st
Finished(rs, attrs, st, d) == Finish(rs, attrs, st, Finalize(st.res, d))

\* validate(ruleset, attributes); the walk takes d milliseconds of the clock
validate(rs, attrs, d) ==
    /\ Finished(rs, attrs, Walk(rs, attrs, clock), d)
    /\ ruleset' = rs
    /\ attributes' = attrs
    /\ clock' = clock + d
    /\ calls' = calls + 1
    /\ UNCHANGED <<options, probe, givenOptions, exported, aliased, stack, walk>>

\* getEventLog returning this.eventLog itself
getEventLogAliasing ==
    /\ snapshot' = eventLog
    /\ aliased' = TRUE
    /\ UNCHANGED <<ruleset, attributes, options, eventLog, result, status, clock,
                   callbackLog, calls, trace, history, probe, givenOptions, exported,
                   peer, stack, walk>>

\* getEventLog(): [...this.eventLog], a new array with the events of the log
getEventLog ==
    /\ snapshot' = eventLog
    /\ aliased' = FALSE
    /\ UNCHANGED <<ruleset, attributes, options, eventLog, result, status, clock,
                   callbackLog, calls, trace, history, probe, givenOptions, exported,
                   peer, stack, walk>>

\* clearEventLog(): this.eventLog = [], a new array; the array that was the
\* log keeps its events
clearEventLog ==
    /\ eventLog' = <<>>
    /\ aliased' = FALSE
    /\ UNCHANGED <<ruleset, attributes, options, result, status, clock,
                   callbackLog, calls, trace, history, snapshot, probe, givenOptions,
                   exported, peer, stack, walk>>

\* two-space indentation of JSON.stringify(..., null, 2) at nesting depth n
Pad(n) ==
    CASE n = 0 -> ""
      [] n = 1 -> "  "
      [] n = 2 -> "    "
      [] n = 3 -> "      "
      [] n = 4 -> "        "

\* a JSON string; the strings of the model need no escaping
JSONString(x) == "\"" \o x \o "\""

\* the JSON text of a primitive
JSONValue(v) ==
    CASE v.t = "string"  -> JSONString(v.s)
      [] v.t = "number"  -> ToString(v.n)
      [] v.t = "boolean" -> IF v.n = 1 THEN "true" ELSE "false"
      [] v.t = "null"    -> "null"

\* toISOString() of the instant now milliseconds into the epoch
ToISOString(now) ==
    "1970-01-01T00:00:00."
    \o (IF now < 10 THEN "00" ELSE IF now < 100 THEN "0" ELSE "")
    \o ToString(now) \o "Z"

\* the texts of items, one per line at depth n, separated by commas
RECURSIVE JSONLines(_, _, _)
JSONLines(items, i, n) ==
    IF i > Len(items) THEN ""
    ELSE Pad(n) \o items[i] \o (IF i < Len(items) THEN ",\n" ELSE "\n")
         \o JSONLines(items, i + 1, n)

\* an array whose elements have the texts items, itself at depth n
JSONArray(items, n) ==
    IF Len(items) = 0 THEN "[]"
    ELSE "[\n" \o JSONLines(items, 1, n + 1) \o Pad(n) \o "]"

\* an object with the member texts members, itself at depth n
JSONObject(members, n) ==
    IF Len(members) = 0 THEN "{}"
    ELSE "{\n" \o JSONLines(members, 1, n + 1) \o Pad(n) \o "}"

JSONMember(name, text) == JSONString(name) \o ": " \o text

\* an entry of event.errors; a member whose value is undefined is left out
JSONError(e, n) ==
    JSONObject(<<JSONMember("field", JSONString(e.field))>>
               \o (IF e.message = Undefined THEN <<>>
                   ELSE <<JSONMember("message", JSONValue(e.message))>>), n)

JSONEvent(e, n) ==
    JSONObject(<<JSONMember("type", JSONString(e.type)),
                 JSONMember("timestamp", JSONString(ToISOString(e.timestamp))),
                 JSONMember("service_id", JSONString(e.service_id)),
                 JSONMember("valid", IF e.valid THEN "true" ELSE "false"),
                 JSONMember("passed_count", ToString(e.passed_count)),
                 JSONMember("failed_count", ToString(e.failed_count)),
                 JSONMember("skipped_count", ToString(e.skipped_count)),
                 JSONMember("duration_ms", ToString(e.duration_ms)),
                 JSONMember("errors",
                     JSONArray([i \in 1..Len(e.errors) |->
                                   JSONError(e.errors[i], n + 2)], n + 1)),
                 JSONMember("attributes_provided",
                     JSONArray([i \in 1..Len(e.attributes_provided) |->
                                   JSONString(e.attributes_provided[i])], n + 1))>>,
               n)

\* JSON.stringify(log, null, 2)
JSONStringify(log) ==
    JSONArray([i \in 1..Len(log) |-> JSONEvent(log[i], 1)], 0)

\* exportEvents()
exportEvents ==
    /\ exported' = JSONStringify(eventLog)
    /\ UNCHANGED <<ruleset, attributes, options, eventLog, result, status, clock,
                   callbackLog, calls, trace, history, snapshot, probe, givenOptions,
                   aliased, peer, stack, walk>>

-----------------------------------------------------------------------------
(* The rulesets and attribute mappings validate is applied to *)

MaxRules == 2          \* top-level rules of a ruleset
MaxConditions == 1     \* nested conditions under the first rule
MaxAlternatives == 2   \* any_of alternatives under the first rule

\* milliseconds one walk may take
Durations == {0, 1}

\* b's properties over a's
Merge(a, b) ==
    [f \in DOMAIN a \cup DOMAIN b |-> IF f \in DOMAIN b THEN b[f] ELSE a[f]]

\* the elements of list at the positions in I, in list order
Pick(list, I) ==
    [k \in 1..Cardinality(I) |->
        list[CHOOSE i \in I : Cardinality({j \in I : j < i}) = k - 1]]

\* the subsequences of list with at most n elements
SubSeqsOf(list, n) ==
    {Pick(list, I) : I \in {J \in SUBSET (1..Len(list)) : Cardinality(J) <= n}}

Keys == {"age", "income"}
AttrValues == {Null, Num(65), Num(66)}
AttrMaps == UNION {[K -> AttrValues] : K \in SUBSET Keys}

\* operator and operands of a rule
Conditions ==
    {[operator |-> "equals", value |-> Num(65)],
     [operator |-> "less_than_or_equal", value |-> Num(65), unit |-> Str("years")],
     [operator |-> "in"],
     [operator |-> "not_in", values |-> <<Num(65), Str("65")>>],
     [operator |-> "exists"],
     [operator |-> "not_exists"],
     [operator |-> "matches", value |-> Str("[")],
     [operator |-> "approximately", value |-> Num(65)]}

\* requirement: absent, the three recognized ones, an unrecognized one
Requirements ==
    {<<>>} \cup {[requirement |-> Str(q)] :
                    q \in {"required", "optional", "disqualifying", "mandatory"}}

\* label and description: empty, label only, both
Metas ==
    {[label |-> Str("")  , description |-> Str("")],
     [label |-> Str("Age")],
     [label |-> Str("Age"), description |-> Str("Must be 65")]}

\* a rule without nested rules: every condition under every requirement, and
\* one condition under every label and description
LeafRules ==
    {Merge(Merge([key |-> "age"], c), q) : c \in Conditions, q \in Requirements}
    \cup
    {Merge(Merge([key |-> "age", operator |-> "equals", value |-> Num(65)], q), m) :
        q \in {<<>>, [requirement |-> Str("disqualifying")]}, m \in Metas}

\* rules without a requirement whose operands the operator ignores
OperandRules ==
    {[key |-> "age", operator |-> "exists", value |-> Num(66),
      values |-> <<Num(66)>>],
     [key |-> "age", operator |-> "not_exists", value |-> Num(65),
      values |-> <<Num(65)>>]}

\* rules without a requirement that fail on some attributes, one for each
\* operator with a wording of its own in describeExpectation
ExpectationRules ==
    {Merge([key |-> "age"], c) : c \in
        {[operator |-> "not_equals", value |-> Num(65)],
         [operator |-> "less_than", value |-> Num(65)],
         [operator |-> "less_than_or_equal", value |-> Num(65)],
         [operator |-> "greater_than", value |-> Num(66), unit |-> Str("years")],
         [operator |-> "greater_than_or_equal", value |-> Num(66)],
         [operator |-> "in", values |-> <<Num(18), Str("a")>>],
         [operator |-> "between", min |-> Num(18), max |-> Num(49)],
         [operator |-> "between", min |-> Num(18), max |-> Num(49),
          unit |-> Str("years")],
         [operator |-> "matches", value |-> Str("^6")]}}

\* rules nested under conditions; the last one nests a rule of its own
ChildList ==
    <<[key |-> "income", operator |-> "equals", value |-> Num(65)],
      [key |-> "income", operator |-> "equals", value |-> Num(65),
       requirement |-> Str("optional")],
      [key |-> "income", operator |-> "exists",
       conditions |-> <<[key |-> "age", operator |-> "equals", value |-> Num(66),
                         requirement |-> Str("disqualifying")]>>]>>

\* any_of alternatives; the second carries a requirement, conditions and
\* any_of of its own, the first and the last have patterns that do not compile
AltList ==
    <<[key |-> "income", operator |-> "matches", value |-> Str("[")],
      [key |-> "income", operator |-> "equals", value |-> Num(65),
       requirement |-> Str("disqualifying"),
       conditions |-> <<[key |-> "age", operator |-> "exists"]>>,
       any_of |-> <<[key |-> "age", operator |-> "exists"]>>],
      [key |-> "income", operator |-> "not_exists"],
      [key |-> "income", operator |-> "matches", value |-> Str("(")]>>

\* rules after the first one
SiblingList ==
    <<[key |-> "income", operator |-> "equals", value |-> Num(65),
       label |-> Str("Income"), description |-> Str("Income must be 65")],
      [key |-> "age", operator |-> "not_exists",
       requirement |-> Str("disqualifying")]>>

\* a first rule with conditions, any_of or both
ParentRules ==
    {Merge(Merge(Merge([key |-> "age", operator |-> "equals", value |-> Num(65)],
                       q), cs), as) :
        q \in {<<>>, [requirement |-> Str("optional")],
               [requirement |-> Str("disqualifying")]},
        cs \in {<<>>} \cup {[conditions |-> x] :
                               x \in SubSeqsOf(ChildList, MaxConditions)},
        as \in {<<>>} \cup {[any_of |-> x] :
                               x \in SubSeqsOf(AltList, MaxAlternatives)}}

\* a first rule with one alternative on another key, for every operator
AlternativeRules ==
    {[key |-> "age", operator |-> "equals", value |-> Num(65),
      any_of |-> <<Merge([key |-> "income"], c)>>] : c \in
        {[operator |-> "equals", value |-> Num(65)],
         [operator |-> "not_equals", value |-> Num(65)],
         [operator |-> "less_than", value |-> Num(65)],
         [operator |-> "less_than_or_equal", value |-> Num(65)],
         [operator |-> "greater_than", value |-> Num(0 - 1)],
         [operator |-> "greater_than_or_equal", value |-> Num(0)],
         [operator |-> "in", values |-> <<Num(65), Null>>],
         [operator |-> "not_in", values |-> <<Num(65)>>],
         [operator |-> "between", min |-> Num(0 - 1), max |-> Num(65)],
         [operator |-> "exists"],
         [operator |-> "not_exists"]}}

\* rule ids: a node's id is its position in the tree, 1 marking a step into
\* conditions and 2 a step into any_of
RECURSIVE WithIds(_, _)
WithIds(rule, path) ==
    [f \in DOMAIN rule \cup {"id"} |->
        CASE f = "id" -> path
          [] f = "conditions" ->
                [i \in 1..Len(rule.conditions) |->
                    WithIds(rule.conditions[i], path \o <<1, i>>)]
          [] f = "any_of" ->
                [i \in 1..Len(rule.any_of) |->
                    WithIds(rule.any_of[i], path \o <<2, i>>)]
          [] OTHER -> rule[f]]

Ruleset(rules) ==
    [service_id |-> "section-8", name |-> "Section 8 Housing Choice Voucher",
     rules |-> [i \in 1..Len(rules) |-> WithIds(rules[i], <<i>>)]]

Rulesets ==
    {Ruleset(<<first>> \o rest) :
        first \in LeafRules \cup OperandRules \cup ExpectationRules
                     \cup ParentRules \cup AlternativeRules,
        rest \in SubSeqsOf(SiblingList, MaxRules - 1)}

-----------------------------------------------------------------------------
(* The engine applied once to every ruleset and attribute mapping *)

Init ==
    /\ ruleset \in Rulesets
    /\ attributes \in AttrMaps
    /\ options = Construct(<<>>)
    /\ eventLog = <<>>
    /\ result = NoResult
    /\ status = "idle"
    /\ clock = 0
    /\ callbackLog = <<>>
    /\ calls = 0
    /\ trace = NoTrace
    /\ history = <<>>
    /\ snapshot = <<>>
    /\ probe = NoProbe
    /\ givenOptions = <<>>
    /\ exported = ""
    /\ aliased = FALSE
    /\ peer = NoPeer
    /\ stack = <<>>
    /\ walk = NoWalk

Validate ==
    \E d \in Durations : status = "idle" /\ validate(ruleset, attributes, d)

Next == Validate

Spec == Init /\ [][Next]_vars

-----------------------------------------------------------------------------
(* One validate call taken rule by rule: every call of evaluateRule is a    *)
(* step, and stack holds the loops over rules that are running, the loop of *)
(* validate at the bottom and above it the loop over rule.conditions of     *)
(* every evaluateRule call that has not returned.                           *)

\* a for-of loop over rules about to take its first element
Frame(rules) == [rules |-> rules, i |-> 1]

\* the walk when validate reaches its loop
NewWalk(rs, attrs, now) ==
    [res |-> NewResult(rs, attrs, now), threw |-> FALSE, entered |-> <<>>,
     evaluated |-> <<>>, depth |-> 0, deepest |-> 0]

\* the innermost running loop and the rule it is at
Top == stack[Len(stack)]
AtRule == Top.rules[Top.i]

\* the innermost loop moves on to its next element
Advance(stk) == [stk EXCEPT ![Len(stk)].i = @ + 1]

\* evaluateRule starting the loop over rule.conditions a second time
DescendTwice(rule, stk) ==
    Append(Append(stk, Frame(rule.conditions)), Frame(rule.conditions))

\* evaluateRule starts its loop over rule.conditions
Descend(rule, stk) == Append(stk, Frame(rule.conditions))

\* evaluateRule from the call of evaluateCondition on, without the loop over
\* rule.conditions: cond is the answer of evaluateCondition
OwnOutcome(rule, attrs, value, st, cond) ==
    IF cond.kind = "throw" THEN [st EXCEPT !.threw = TRUE]
    ELSE IF Truthy(cond.val)
    THEN [st EXCEPT !.res = PassBranch(rule, value, @)]
    ELSE ElseBranch(rule, value, st, AnyPassed(rule, attrs))

\* evaluateRule up to its loop over rule.conditions
Own(rule, attrs, value, st) ==
    IF MissingValue(rule, value)
    THEN [st EXCEPT !.res = SkipBranch(rule, @)]
    ELSE OwnOutcome(rule, attrs, value,
                    [st EXCEPT !.evaluated = Append(@, rule.id)],
                    evaluateCondition(rule, value))

\* evaluateRule reaches its loop over rule.conditions: the value is not
\* missing, the condition is true and the rule has conditions
Descends(rule, value, cond) ==
    /\ ~MissingValue(rule, value)
    /\ cond.kind = "return" /\ Truthy(cond.val)
    /\ "conditions" \in DOMAIN rule

\* the engine constructed with default options, validate not yet called
InitDefault ==
    /\ ruleset = [service_id |-> "", name |-> "", rules |-> <<>>]
    /\ attributes = <<>>
    /\ options = Construct(<<>>)
    /\ eventLog = <<>>
    /\ result = NoResult
    /\ status = "idle"
    /\ clock = 0
    /\ callbackLog = <<>>
    /\ calls = 0
    /\ trace = NoTrace
    /\ history = <<>>
    /\ snapshot = <<>>
    /\ probe = NoProbe
    /\ givenOptions = <<>>
    /\ exported = ""
    /\ aliased = FALSE
    /\ peer = NoPeer
    /\ stack = <<>>
    /\ walk = NoWalk

\* the rulesets walked rule by rule: those whose first rule has conditions or
\* alternatives and no requirement; the attributes: those without null
StepRulesets ==
    {rs \in Rulesets :
        /\ "requirement" \notin DOMAIN rs.rules[1]
        /\ "conditions" \in DOMAIN rs.rules[1] \/ "any_of" \in DOMAIN rs.rules[1]}

StepAttrs == {a \in AttrMaps : \A k \in DOMAIN a : a[k] # Null}

\* validate(ruleset, attributes) up to its loop
Begin ==
    /\ status = "idle"
    /\ \E rs \in StepRulesets, attrs \in StepAttrs :
        /\ ruleset' = rs
        /\ attributes' = attrs
        /\ status' = "walking"
        /\ stack' = <<Frame(rs.rules)>>
        /\ walk' = NewWalk(rs, attrs, clock)
        /\ UNCHANGED <<options, eventLog, result, clock, callbackLog, calls, trace,
                       history, snapshot, probe, givenOptions, exported, aliased,
                       peer>>

\* the innermost loop calls evaluateRule for its next rule; the call returns
\* in this step unless it starts a loop over rule.conditions
EnterRule ==
    /\ status = "walking" /\ ~walk.threw
    /\ Top.i <= Len(Top.rules)
    /\ IF Descends(AtRule, Lookup(attributes, AtRule.key),
                   evaluateCondition(AtRule, Lookup(attributes, AtRule.key)))
       THEN /\ stack' = Descend(AtRule, Advance(stack))
            /\ walk' = Own(AtRule, attributes, Lookup(attributes, AtRule.key),
                           Enter(AtRule, walk))
       ELSE /\ stack' = Advance(stack)
            /\ walk' = Leave(Own(AtRule, attributes,
                                 Lookup(attributes, AtRule.key),
                                 Enter(AtRule, walk)), walk.depth)
    /\ UNCHANGED <<ruleset, attributes, options, eventLog, result, status, clock,
                   callbackLog, calls, trace, history, snapshot, probe,
                   givenOptions, exported, aliased, peer>>

\* a loop over rule.conditions is through: its evaluateRule call returns
ReturnFromRule ==
    /\ status = "walking" /\ ~walk.threw
    /\ Len(stack) > 1
    /\ Top.i > Len(Top.rules)
    /\ stack' = SubSeq(stack, 1, Len(stack) - 1)
    /\ walk' = Leave(walk, walk.depth - 1)
    /\ UNCHANGED <<ruleset, attributes, options, eventLog, result, status, clock,
                   callbackLog, calls, trace, history, snapshot, probe,
                   givenOptions, exported, aliased, peer>>

\* the loop of validate is through, or an exception has left every loop:
\* validate from "result.valid = ..." on, after d milliseconds
End ==
    /\ status = "walking"
    /\ walk.threw \/ (Len(stack) = 1 /\ Top.i > Len(Top.rules))
    /\ \E d \in Durations :
        /\ Finished(ruleset, attributes, walk, d)
        /\ clock' = clock + d
        /\ calls' = calls + 1
        /\ stack' = <<>>
        /\ UNCHANGED <<ruleset, attributes, options, probe, givenOptions, exported,
                       aliased, walk>>

NextSteps == Begin \/ EnterRule \/ ReturnFromRule \/ End

\* a call that has begun keeps running: JavaScript runs it to completion
SpecSteps == InitDefault /\ [][NextSteps]_vars /\ WF_vars(NextSteps)

-----------------------------------------------------------------------------
(* One engine used for several calls *)

MaxCalls == 2          \* validate calls on one engine

\* the options object given to the constructor: each option given or not
OptionInputs ==
    UNION {[K -> {Bool(TRUE), Bool(FALSE), Null, Func("callback")}] :
              K \in SUBSET {"logEvents", "eventCallback"}}

\* logEvents given as a boolean, eventCallback as a function
GivenOptions ==
    {h \in OptionInputs :
        /\ "logEvents" \in DOMAIN h => h.logEvents.t = "boolean"
        /\ "eventCallback" \in DOMAIN h => h.eventCallback.t = "function"}

EngineOptions == {Construct(g) : g \in GivenOptions}

EngineRulesets ==
    {Ruleset(<<[key |-> "age", operator |-> "less_than_or_equal",
                value |-> Num(65), requirement |-> Str("required")]>>),
     Ruleset(<<[key |-> "age", operator |-> "equals", value |-> Num(65),
                requirement |-> Str("disqualifying"),
                conditions |-> <<ChildList[1]>>,
                any_of |-> <<AltList[2], AltList[4]>>],
               SiblingList[1]>>)}

EngineAttrs ==
    {[k \in {"age"} |-> Num(66)],
     [k \in {"age", "income"} |-> IF k = "age" THEN Num(65) ELSE Num(66)]}

NoRuleset == [service_id |-> "", name |-> "", rules |-> <<>>]

InitEngine ==
    /\ ruleset = NoRuleset
    /\ attributes = <<>>
    /\ givenOptions \in GivenOptions
    /\ options = Construct(givenOptions)
    /\ eventLog = <<>>
    /\ result = NoResult
    /\ status = "idle"
    /\ clock = 0
    /\ callbackLog = <<>>
    /\ calls = 0
    /\ trace = NoTrace
    /\ history = <<>>
    /\ snapshot = <<>>
    /\ probe = NoProbe
    /\ exported = ""
    /\ aliased = FALSE
    /\ peer = NoPeer
    /\ stack = <<>>
    /\ walk = NoWalk

ValidateAny ==
    \E rs \in EngineRulesets, attrs \in EngineAttrs, d \in Durations :
        calls < MaxCalls /\ validate(rs, attrs, d)

GetEventLog == getEventLog

ClearEventLog == clearEventLog

ExportEvents == exportEvents

NextEngine == ValidateAny \/ GetEventLog \/ ClearEventLog \/ ExportEvents

SpecEngine == InitEngine /\ [][NextEngine]_vars

-----------------------------------------------------------------------------
(* The log and the lists read from it: one engine with default options, and *)
(* a caller that keeps the list getEventLog returned and changes it         *)

\* an object of the caller's, shaped like an event
CallerEvent ==
    [type |-> "caller", timestamp |-> 0, service_id |-> "", valid |-> FALSE,
     passed_count |-> 0, failed_count |-> 0, skipped_count |-> 0,
     duration_ms |-> 0, errors |-> <<>>, attributes_provided |-> <<>>]

ValidateLogged ==
    /\ calls < MaxCalls
    /\ \E rs \in EngineRulesets, attrs \in EngineAttrs : validate(rs, attrs, 1)

\* the caller changes the list it was returned; a list that is this.eventLog
\* itself is the log
ChangeReturned(list) ==
    /\ snapshot' = list
    /\ eventLog' = IF aliased THEN list ELSE eventLog
    /\ UNCHANGED <<ruleset, attributes, options, result, status, clock,
                   callbackLog, calls, trace, history, probe, givenOptions,
                   exported, aliased, peer, stack, walk>>

\* engine.getEventLog().push(...), on the list returned last
AddToReturned ==
    /\ Len(snapshot) <= MaxCalls
    /\ ChangeReturned(Append(snapshot, CallerEvent))

\* engine.getEventLog().pop(), on the list returned last
RemoveFromReturned ==
    /\ Len(snapshot) > 0
    /\ ChangeReturned(SubSeq(snapshot, 1, Len(snapshot) - 1))

NextSnapshot ==
    \/ ValidateLogged
    \/ GetEventLog
    \/ ClearEventLog
    \/ ExportEvents
    \/ AddToReturned
    \/ RemoveFromReturned

SpecSnapshot == InitDefault /\ [][NextSnapshot]_vars

-----------------------------------------------------------------------------
(* Two engine instances in one process: the calls go to the instance whose  *)
(* fields are options and eventLog, peer holds the fields of the other one, *)
(* and the caller turns from one to the other between calls                 *)

\* the options the two instances are constructed with
InstanceOptions == {<<>>, [logEvents |-> Bool(FALSE)]}

\* new ValidationEngine(options), twice
InitInstances ==
    /\ ruleset = NoRuleset
    /\ attributes = <<>>
    /\ givenOptions \in InstanceOptions
    /\ options = Construct(givenOptions)
    /\ eventLog = <<>>
    /\ peer \in {[options |-> Construct(g), givenOptions |-> g, eventLog |-> <<>>] :
                    g \in InstanceOptions}
    /\ result = NoResult
    /\ status = "idle"
    /\ clock = 0
    /\ callbackLog = <<>>
    /\ calls = 0
    /\ trace = NoTrace
    /\ history = <<>>
    /\ snapshot = <<>>
    /\ probe = NoProbe
    /\ exported = ""
    /\ aliased = FALSE
    /\ stack = <<>>
    /\ walk = NoWalk

\* the next calls go to the other instance
SwitchInstance ==
    /\ options' = peer.options
    /\ givenOptions' = peer.givenOptions
    /\ eventLog' = peer.eventLog
    /\ peer' = [options |-> options, givenOptions |-> givenOptions,
                eventLog |-> eventLog]
    /\ UNCHANGED <<ruleset, attributes, result, status, clock, callbackLog, calls,
                   trace, history, snapshot, probe, exported, aliased, stack, walk>>

NextInstances == ValidateLogged \/ ClearEventLog \/ SwitchInstance

SpecInstances == InitInstances /\ [][NextInstances]_vars

-----------------------------------------------------------------------------
(* evaluateCondition called directly *)

\* the operands of a rule, operator by operator
CondRules ==
    {[operator |-> o, value |-> v] :
        o \in {"equals", "not_equals"},
        v \in {Num(65), Str("65"), Null, Bool(TRUE)}}
    \cup
    {[operator |-> o, value |-> v] :
        o \in {"less_than", "less_than_or_equal", "greater_than",
               "greater_than_or_equal"},
        v \in {Num(0 - 1), Num(0), Num(65), Str("65")}}
    \cup
    {Merge([operator |-> o], vs) :
        o \in {"in", "not_in"},
        vs \in {<<>>, [values |-> <<>>], [values |-> <<Num(65), Str("66")>>],
                [values |-> <<Null, Bool(TRUE)>>]}}
    \cup
    {[operator |-> "between", min |-> Num(b[1]), max |-> Num(b[2])] :
        b \in {<<0, 65>>, <<65, 66>>, <<66, 65>>, <<0 - 1, 1>>}}
    \cup
    {[operator |-> "exists"], [operator |-> "not_exists"]}
    \cup
    {Merge([operator |-> "matches"], v) :
        v \in {<<>>, [value |-> Str("^[0-9]+$")], [value |-> Str("^6")],
               [value |-> Str("[")]}}
    \cup
    {[operator |-> "approximately", value |-> Num(65)]}

\* the attribute values evaluateCondition is called with
CondValues ==
    {Undefined, Null, Bool(TRUE), Bool(FALSE),
     Num(0 - 1), Num(0), Num(64), Num(65), Num(66),
     Str(""), Str(" "), Str("65"), Str(" 65 "), Str("-1"), Str("abc"), Str("6a")}

InitCondition ==
    /\ ruleset = NoRuleset
    /\ attributes = <<>>
    /\ options = Construct(<<>>)
    /\ eventLog = <<>>
    /\ result = NoResult
    /\ status = "idle"
    /\ clock = 0
    /\ callbackLog = <<>>
    /\ calls = 0
    /\ trace = NoTrace
    /\ history = <<>>
    /\ snapshot = <<>>
    /\ givenOptions = <<>>
    /\ exported = ""
    /\ aliased = FALSE
    /\ peer = NoPeer
    /\ stack = <<>>
    /\ walk = NoWalk
    /\ probe \in {[done |-> FALSE, rule |-> r, value |-> v, answer |-> Throw] :
                     r \in CondRules, v \in CondValues}

\* engine.evaluateCondition(rule, value)
EvaluateCondition ==
    /\ ~probe.done
    /\ probe' = [probe EXCEPT !.done = TRUE,
                              !.answer = evaluateCondition(probe.rule, probe.value)]
    /\ UNCHANGED <<ruleset, attributes, options, eventLog, result, status, clock,
                   callbackLog, calls, trace, history, snapshot, givenOptions, exported,
                   aliased, peer, stack, walk>>

NextCondition == EvaluateCondition

SpecCondition == InitCondition /\ [][NextCondition]_vars

-----------------------------------------------------------------------------
(* Vocabulary of the properties *)

Returned == status = "returned"

TopRules == {ruleset.rules[i] : i \in 1..Len(ruleset.rules)}

Elems(list) == {list[i] : i \in 1..Len(list)}

RECURSIVE NodesOf(_)
NodesOf(rule) ==
    {rule}
    \cup (IF "conditions" \in DOMAIN rule
          THEN UNION {NodesOf(c) : c \in Elems(rule.conditions)} ELSE {})
    \cup (IF "any_of" \in DOMAIN rule
          THEN UNION {NodesOf(a) : a \in Elems(rule.any_of)} ELSE {})

\* every rule node of the ruleset: top-level, nested, alternative
AllNodes == UNION {NodesOf(r) : r \in TopRules}

\* the nodes evaluateRule was entered for in the last walk
EnteredNodes == {n \in AllNodes : \E i \in 1..Len(trace.entered) : trace.entered[i] = n.id}

\* evaluateCondition was called for node n in the last walk
Evaluated(n) == \E i \in 1..Len(trace.evaluated) : trace.evaluated[i] = n.id

Count(list, id) == Cardinality({i \in 1..Len(list) : list[i].id = id})
In(list, id) == Count(list, id) > 0
Recorded(id) ==
    Count(result.passed, id) + Count(result.failed, id) + Count(result.skipped, id)

ValueOf(n) == Lookup(attributes, n.key)
KeyAbsent(n) == n.key \notin DOMAIN attributes
Requirement(n) == Get(n, "requirement")

\* n's own condition is false on the attributes
ConditionFalse(n) ==
    LET c == evaluateCondition(n, ValueOf(n))
    IN  c.kind = "return" /\ ~Truthy(c.val)

ConditionTrue(n) ==
    LET c == evaluateCondition(n, ValueOf(n))
    IN  c.kind = "return" /\ Truthy(c.val)

\* some alternative of n has a condition that is true on the attributes
AlternativeTrue(n) ==
    /\ "any_of" \in DOMAIN n
    /\ \E a \in Elems(n.any_of) : ConditionTrue(a)

\* every error stands next to the failed record pushed with it
ErrorsPaired ==
    /\ Len(result.errors) = Len(result.failed)
    /\ \A i \in 1..Len(result.errors) :
          result.errors[i].field = result.failed[i].key

-----------------------------------------------------------------------------
(* C1 *)

\* C1: the result validate returns has valid = true exactly when its failed
\* list is empty, whatever the lengths of skipped and passed.
C1_ValidIffNoFailed ==
    Returned => (result.valid <=> Len(result.failed) = 0)

C1_Witness ==
    /\ Returned
    /\ result.valid
    /\ Len(result.skipped) > 0
    /\ Len(result.passed) > 0

-----------------------------------------------------------------------------
(* C2 *)

\* C2: in one validate call every rule node, top-level, nested or
\* alternative, has at most one outcome record in passed, failed and skipped
\* taken together.
C2_AtMostOneRecord ==
    Returned => \A n \in AllNodes : Recorded(n.id) <= 1

C2_Witness ==
    /\ Returned
    /\ \E n \in AllNodes : Len(n.id) > 1 /\ In(result.failed, n.id)
    /\ \E n \in AllNodes : "any_of" \in DOMAIN n /\ In(result.passed, n.id)
    /\ Len(result.passed) + Len(result.failed) + Len(result.skipped) >= 3

-----------------------------------------------------------------------------
(* C3 *)

\* C3 as stated: every top-level rule id is in at most one of the lists, and
\* in none of them exactly when the rule is optional and its condition was
\* evaluated and failed.
C3_Original ==
    Returned =>
        \A r \in TopRules :
            /\ Recorded(r.id) <= 1
            /\ Recorded(r.id) = 0 <=>
                  /\ Requirement(r) = Str("optional")
                  /\ Evaluated(r)
                  /\ ConditionFalse(r)

\* C3 (amended): every top-level rule id is in at most one of the lists, and
\* in none of them exactly when the rule is optional and either its attribute
\* is missing (undefined, operator other than not_exists) or its condition
\* failed and no any_of alternative was satisfied.
C3_Amended ==
    Returned =>
        \A r \in TopRules :
            /\ Recorded(r.id) <= 1
            /\ Recorded(r.id) = 0 <=>
                  /\ Requirement(r) = Str("optional")
                  /\ \/ MissingValue(r, ValueOf(r))
                     \/ ConditionFalse(r) /\ ~AlternativeTrue(r)

C3_Witness ==
    /\ Returned
    /\ Len(ruleset.rules) = 2
    /\ \E r \in TopRules :
          /\ Requirement(r) = Str("optional") /\ Evaluated(r)
          /\ ConditionFalse(r) /\ Recorded(r.id) = 0
    /\ \E r \in TopRules : Recorded(r.id) = 1

-----------------------------------------------------------------------------
(* Vocabulary of the claims about single nodes *)

\* the record of node n in list (n has exactly one there)
RecordOf(list, n) == list[CHOOSE i \in 1..Len(list) : list[i].id = n.id]

\* the error pushed together with the failed record of node n
ErrorOf(n) ==
    result.errors[CHOOSE i \in 1..Len(result.failed) : result.failed[i].id = n.id]

TopIndex(r) == CHOOSE i \in 1..Len(ruleset.rules) : ruleset.rules[i] = r

\* the ruleset without its top-level rule r
Without(r) ==
    [ruleset EXCEPT !.rules = SubSeq(@, 1, TopIndex(r) - 1)
                               \o SubSeq(@, TopIndex(r) + 1, Len(@))]

\* what validate returns for the ruleset without r on the same attributes
ResultWithout(r) == Finalize(Walk(Without(r), attributes, 0).res, 0)

\* r adds nothing to errors and failed and does not change valid
NoEffectOnValidity(r) ==
    /\ result.errors = ResultWithout(r).errors
    /\ Len(result.failed) = Len(ResultWithout(r).failed)
    /\ result.valid = ResultWithout(r).valid

\* the requirement is 'required' or not given
RequiredOrDefault(n) == Requirement(n) \in {Undefined, Str("required")}

\* n's condition was evaluated and is false, and no alternative holds
FailedOutright(n) == Evaluated(n) /\ ConditionFalse(n) /\ ~AlternativeTrue(n)

-----------------------------------------------------------------------------
(* C4 *)

\* C4: a rule, operator other than not_exists, whose attribute is absent or
\* null has its condition not evaluated; it gets one skipped record with
\* reason missing_attribute and a message naming the key unless it is
\* optional, and no record at all when it is optional.
C4_MissingOrNullSkipped ==
    Returned =>
        \A n \in EnteredNodes :
            (n.operator # "not_exists" /\ ValueOf(n) \in {Undefined, Null}) =>
                /\ ~Evaluated(n)
                /\ Count(result.passed, n.id) = 0
                /\ Count(result.failed, n.id) = 0
                /\ ErrorsPaired
                /\ IF Requirement(n) # Str("optional")
                   THEN /\ Count(result.skipped, n.id) = 1
                        /\ RecordOf(result.skipped, n).reason = "missing_attribute"
                        /\ RecordOf(result.skipped, n).message =
                              Str("Missing required attribute: " \o n.key)
                   ELSE Count(result.skipped, n.id) = 0

-----------------------------------------------------------------------------
(* C5 *)

-----------------------------------------------------------------------------
(* C6 *)

\* C6: a rule whose own condition is false and one of whose alternatives is
\* true is, whatever its requirement, once in passed with satisfied_by
\* 'alternative'; nothing is added to failed or errors for it, no alternative
\* has a record of its own, and none of its conditions is entered.
C6_SatisfiedByAlternative ==
    Returned =>
        \A n \in EnteredNodes :
            (Evaluated(n) /\ ConditionFalse(n) /\ AlternativeTrue(n)) =>
                /\ Count(result.passed, n.id) = 1
                /\ "satisfied_by" \in DOMAIN RecordOf(result.passed, n)
                /\ RecordOf(result.passed, n).satisfied_by = "alternative"
                /\ Recorded(n.id) = 1
                /\ ErrorsPaired
                /\ \A m \in NodesOf(n) \ {n} :
                      Recorded(m.id) = 0 /\ m \notin EnteredNodes
                /\ "conditions" \in DOMAIN n =>
                      \A c \in Elems(n.conditions) : ~Evaluated(c)

C6_Witness ==
    /\ Returned
    /\ \E n \in EnteredNodes :
          /\ Evaluated(n) /\ ConditionFalse(n) /\ AlternativeTrue(n)
          /\ Requirement(n) = Str("disqualifying")
          /\ "conditions" \in DOMAIN n /\ Len(n.conditions) > 0
          /\ Len(n.any_of) = 2
          /\ In(result.passed, n.id)

-----------------------------------------------------------------------------
(* C7 *)

\* C7: when a rule passes on its own condition and a nested condition of it,
\* not optional and with its attribute present, fails, the nested rule is in
\* failed, the parent is in passed, and valid is false.
C7_NestedFailureInvalidates ==
    Returned =>
        \A p \in EnteredNodes :
            (Evaluated(p) /\ ConditionTrue(p) /\ "conditions" \in DOMAIN p) =>
                \A c \in Elems(p.conditions) :
                    (/\ Requirement(c) # Str("optional")
                     /\ ~KeyAbsent(c)
                     /\ ConditionFalse(c) /\ ~AlternativeTrue(c)) =>
                        /\ Count(result.failed, c.id) = 1
                        /\ Count(result.passed, p.id) = 1
                        /\ "satisfied_by" \notin DOMAIN RecordOf(result.passed, p)
                        /\ ~result.valid

C7_Witness ==
    /\ Returned
    /\ \E p \in TopRules :
          /\ In(result.passed, p.id)
          /\ "conditions" \in DOMAIN p
          /\ \E c \in Elems(p.conditions) : In(result.failed, c.id)
    /\ \A r \in TopRules : ~In(result.failed, r.id)
    /\ ~result.valid

-----------------------------------------------------------------------------
(* C8 *)

\* C8: an optional rule whose condition is evaluated and fails, with no
\* satisfying alternative, has no record in passed, failed or skipped; a
\* top-level one leaves errors, failed and valid as they are without it.
C8_OptionalFailureInvisible ==
    Returned =>
        \A n \in EnteredNodes :
            (Requirement(n) = Str("optional") /\ FailedOutright(n)) =>
                /\ Recorded(n.id) = 0
                /\ ErrorsPaired
                /\ n \in TopRules => NoEffectOnValidity(n)

C8_Witness ==
    /\ Returned
    /\ Len(ruleset.rules) = 2
    /\ \E n \in TopRules :
          /\ Requirement(n) = Str("optional") /\ FailedOutright(n)
          /\ "any_of" \in DOMAIN n /\ Len(n.any_of) > 0
          /\ Recorded(n.id) = 0
    /\ Len(result.passed) = 1
    /\ result.valid

-----------------------------------------------------------------------------
(* C9 *)

\* a description or label that is given: present and not empty
Given(n, f) == f \in DOMAIN n /\ n[f] \notin {Null, Str("")}

\* the error message the claim gives for rule n
ClaimedMessage(n) ==
    IF Given(n, "description") THEN n.description
    ELSE Str("Does not meet "
             \o (IF Given(n, "label") THEN n.label.s ELSE n.key)
             \o " requirement")

\* C9: a rule whose condition is evaluated and fails with no satisfying
\* alternative gets one failed record, with severity 'disqualifying' when its
\* requirement is 'disqualifying' and without a severity field for every
\* other requirement except 'optional'; with it goes exactly one error
\* {field: key, message: the description, or 'Does not meet <label or key>
\* requirement' when no description is given}.
C9_FailureClassified ==
    Returned =>
        \A n \in EnteredNodes :
            (FailedOutright(n) /\ Requirement(n) # Str("optional")) =>
                /\ Count(result.failed, n.id) = 1
                /\ Recorded(n.id) = 1
                /\ IF Requirement(n) = Str("disqualifying")
                   THEN /\ "severity" \in DOMAIN RecordOf(result.failed, n)
                        /\ RecordOf(result.failed, n).severity = "disqualifying"
                   ELSE "severity" \notin DOMAIN RecordOf(result.failed, n)
                /\ ErrorsPaired
                /\ ErrorOf(n) = [field |-> n.key, message |-> ClaimedMessage(n)]

C9_Witness ==
    /\ Returned
    /\ Len(result.failed) = 2
    /\ Len(result.errors) = 2
    /\ \E n \in TopRules :
          /\ FailedOutright(n) /\ Requirement(n) = Str("disqualifying")
          /\ Given(n, "description")
          /\ ErrorOf(n).message = n.description
    /\ \E n \in TopRules :
          /\ FailedOutright(n) /\ Requirement(n) = Undefined
          /\ "severity" \notin DOMAIN RecordOf(result.failed, n)

-----------------------------------------------------------------------------
(* C10 *)

\* what two calls with the same inputs must agree on
Outcome(call) ==
    IF call.status = "returned"
    THEN [status |-> "returned", passed |-> call.result.passed,
          failed |-> call.result.failed, skipped |-> call.result.skipped,
          errors |-> call.result.errors, valid |-> call.result.valid]
    ELSE [status |-> call.status]

\* C10: on one engine, whatever its options and its event log, two validate
\* calls with the same ruleset and attributes end alike: the same passed,
\* failed, skipped, errors and valid.
C10_Deterministic ==
    \A i, j \in 1..Len(history) :
        (/\ history[i].ruleset = history[j].ruleset
         /\ history[i].attributes = history[j].attributes) =>
            Outcome(history[i]) = Outcome(history[j])

C10_Witness ==
    /\ Len(history) = 2
    /\ history[1].ruleset = history[2].ruleset
    /\ history[1].attributes = history[2].attributes
    /\ history[1].status = "returned"
    /\ Len(history[1].result.failed) > 0
    /\ history[1].logged # history[2].logged
    /\ history[1].result.timestamp # history[2].result.timestamp

-----------------------------------------------------------------------------
(* Vocabulary of the claims about failures that stay local *)

\* the twelve operators evaluateCondition has a case for
Operators ==
    {"equals", "not_equals", "less_than", "less_than_or_equal", "greater_than",
     "greater_than_or_equal", "in", "not_in", "between", "exists",
     "not_exists", "matches"}

\* a matches rule whose pattern does not compile
InvalidPattern(n) ==
    /\ n.operator = "matches"
    /\ "value" \in DOMAIN n
    /\ ~PatternValid(ToStr(n.value))

\* the records of list that are not r's
RecordsOfOthers(list, r) == SelectSeq(list, LAMBDA x : x.id # r.id)

\* the errors that were not pushed with r's failed record
ErrorsOfOthers(r) ==
    Pick(result.errors,
         {i \in 1..Len(result.errors) :
             i <= Len(result.failed) /\ result.failed[i].id # r.id})

\* the other rules are recorded as they are when r is not in the ruleset
OthersAsWithout(r) ==
    /\ RecordsOfOthers(result.passed, r) = ResultWithout(r).passed
    /\ RecordsOfOthers(result.failed, r) = ResultWithout(r).failed
    /\ RecordsOfOthers(result.skipped, r) = ResultWithout(r).skipped
    /\ ErrorsOfOthers(r) = ResultWithout(r).errors

-----------------------------------------------------------------------------
(* C11 *)

\* C11: when the condition of a matches rule with an invalid pattern is
\* evaluated, validate still returns a result and every top-level rule of
\* the ruleset is still entered.
C11_InvalidPatternLocal ==
    status # "idle" =>
        \A n \in AllNodes :
            (InvalidPattern(n) /\ Evaluated(n)) =>
                /\ Returned
                /\ \A r \in TopRules : r \in EnteredNodes

-----------------------------------------------------------------------------
(* C12 *)

\* C12: a top-level rule with an operator outside the twelve and a present
\* attribute has a condition that is false without an exception; with no
\* satisfying alternative it is recorded by its requirement like any failed
\* rule (nowhere when optional, in failed with severity when disqualifying,
\* in failed without severity otherwise, always with its error); validate
\* returns, every top-level rule is entered, and the records of all other
\* rules are those of the ruleset without the rule.
C12_UnknownOperatorLocal ==
    status # "idle" =>
        \A r \in TopRules :
            (/\ r.operator \notin Operators
             /\ ValueOf(r) \notin {Undefined, Null}
             /\ r \in EnteredNodes) =>
                /\ evaluateCondition(r, ValueOf(r)) = Return(Bool(FALSE))
                /\ Returned
                /\ \A s \in TopRules : s \in EnteredNodes
                /\ OthersAsWithout(r)
                /\ ~AlternativeTrue(r) =>
                      IF Requirement(r) = Str("optional")
                      THEN Recorded(r.id) = 0
                      ELSE /\ Count(result.failed, r.id) = 1
                           /\ Recorded(r.id) = 1
                           /\ ("severity" \in DOMAIN RecordOf(result.failed, r))
                                 <=> Requirement(r) = Str("disqualifying")
                           /\ ErrorOf(r) = [field |-> r.key,
                                            message |-> ErrorMessage(r)]

C12_Witness ==
    /\ Returned
    /\ Len(ruleset.rules) = 2
    /\ ruleset.rules[1].operator \notin Operators
    /\ Requirement(ruleset.rules[1]) = Str("disqualifying")
    /\ ValueOf(ruleset.rules[1]) = Num(65)
    /\ In(result.failed, ruleset.rules[1].id)
    /\ In(result.passed, ruleset.rules[2].id)

-----------------------------------------------------------------------------
(* Vocabulary of the claims about evaluateCondition *)

\* evaluateCondition returned, and what it returned counts as true
Answered == probe.done /\ probe.answer.kind = "return"
AnsweredTrue == Answered /\ Truthy(probe.answer.val)

NumericOperators ==
    {"less_than", "less_than_or_equal", "greater_than",
     "greater_than_or_equal", "between"}

\* v is a number, or a string that spells one
DenotesNumber(v) ==
    \/ v.t = "number"
    \/ /\ v.t = "string"
       /\ Len(TrimRight(TrimLeft(v.s))) > 0
       /\ ~StringToNumber(v.s).nan

-----------------------------------------------------------------------------
(* C13 *)

\* C13: for less_than, less_than_or_equal, greater_than,
\* greater_than_or_equal and between, evaluateCondition returns false for
\* every attribute value that does not denote a number (a non-numeric,
\* empty or blank string, a boolean, null, undefined), whatever the operands.
C13_NumericFailClosed ==
    (/\ probe.done
     /\ probe.rule.operator \in NumericOperators
     /\ ~DenotesNumber(probe.value)) =>
        probe.answer = Return(Bool(FALSE))

-----------------------------------------------------------------------------
(* C14 *)

\* the operators whose reference semantics the claim spells out, on the
\* operands it spells them out for
HasReference(rule, value) ==
    \/ rule.operator \in {"equals", "not_equals", "in", "not_in"}
    \/ /\ rule.operator \in {"less_than", "less_than_or_equal", "greater_than",
                            "greater_than_or_equal"}
       /\ value.t = "number" /\ rule.value.t = "number"
    \/ /\ rule.operator = "between"
       /\ value.t = "number" /\ rule.min.t = "number" /\ rule.max.t = "number"

\* the reference semantics: equality of type and value, membership by that
\* equality, the order of the integers
Reference(rule, value) ==
    CASE rule.operator = "equals" ->
            value.t = rule.value.t /\ value.n = rule.value.n /\ value.s = rule.value.s
      [] rule.operator = "not_equals" ->
            ~(value.t = rule.value.t /\ value.n = rule.value.n
              /\ value.s = rule.value.s)
      [] rule.operator = "in" ->
            "values" \in DOMAIN rule /\ value \in Elems(rule.values)
      [] rule.operator = "not_in" ->
            ~("values" \in DOMAIN rule /\ value \in Elems(rule.values))
      [] rule.operator = "less_than" -> value.n < rule.value.n
      [] rule.operator = "less_than_or_equal" -> value.n <= rule.value.n
      [] rule.operator = "greater_than" -> value.n > rule.value.n
      [] rule.operator = "greater_than_or_equal" -> value.n >= rule.value.n
      [] rule.operator = "between" ->
            rule.min.n <= value.n /\ value.n <= rule.max.n

\* C14: evaluateCondition answers as the reference semantics: equals and
\* not_equals by equality of type and value without coercion, in by
\* membership of values and not_in as its negation (also without values),
\* the comparisons by the order of the numbers, inclusive at the boundary,
\* between inclusive on both bounds.
C14_ReferenceSemantics ==
    (probe.done /\ HasReference(probe.rule, probe.value)) =>
        /\ Answered
        /\ AnsweredTrue <=> Reference(probe.rule, probe.value)

C14_Witness ==
    /\ probe.done
    /\ probe.rule.operator = "between"
    /\ probe.rule.min = Num(65)
    /\ probe.value = Num(65)
    /\ probe.answer = Return(Bool(TRUE))

-----------------------------------------------------------------------------
(* Vocabulary of the claims about the audit log *)

\* a step that is a validate call; one that returned a result
ValidateStep == calls' = calls + 1
ReturnedStep == ValidateStep /\ status' = "returned"

\* the step pushed exactly one event and kept what was there
AppendedOne ==
    /\ Len(eventLog') = Len(eventLog) + 1
    /\ SubSeq(eventLog', 1, Len(eventLog)) = eventLog

LogUntouched == eventLog' = eventLog

\* no validate call was made on the engine yet
Constructed == calls = 0

Last(list) == list[Len(list)]

-----------------------------------------------------------------------------
(* C15 *)

\* C15 as stated: the log of an engine no call was made on is empty, and
\* every validate call that returns appends exactly one event.
C15_Original ==
    [][/\ Constructed => eventLog = <<>>
       /\ ReturnedStep => AppendedOne]_vars

\* C15 (amended): the log of an engine no call was made on is empty; a
\* validate call appends exactly one event when logEvents is true and the
\* call returns a result, and leaves the log as it is when logEvents is
\* false or the call throws.
C15_Amended ==
    [][/\ Constructed => eventLog = <<>>
       /\ ValidateStep =>
             IF status' = "returned" /\ Truthy(options.logEvents)
             THEN AppendedOne
             ELSE LogUntouched]_vars

C15_Witness ==
    /\ Len(history) = 2
    /\ history[1].status = "returned" /\ history[1].logged = 0
    /\ history[2].status = "returned" /\ history[2].logged = 1
    /\ Len(eventLog) = 2

-----------------------------------------------------------------------------
(* C16 *)

\* C16: logEvents is true when the constructor was not given it.  A validate
\* call that returns, with logEvents true, appends the event of its result
\* and then, when eventCallback is configured, calls it once with that event,
\* the event being in the log by then; with logEvents false it leaves the
\* log alone and does not call eventCallback.  The result is in both cases
\* the one the inputs alone determine.
C16_LoggingConfiguration ==
    [][/\ "logEvents" \notin DOMAIN givenOptions => options.logEvents = Bool(TRUE)
       /\ ReturnedStep =>
             /\ result' = Finalize(Walk(ruleset', attributes', clock).res,
                                   clock' - clock)
             /\ IF Truthy(options.logEvents)
                THEN /\ eventLog' = Append(eventLog, createEvent(result'))
                     /\ IF Truthy(options.eventCallback)
                        THEN /\ Len(callbackLog') = Len(callbackLog) + 1
                             /\ SubSeq(callbackLog', 1, Len(callbackLog)) = callbackLog
                             /\ Last(callbackLog').event = createEvent(result')
                             /\ Last(callbackLog').log = eventLog'
                        ELSE callbackLog' = callbackLog
                ELSE /\ eventLog' = eventLog
                     /\ callbackLog' = callbackLog]_vars

C16_Witness ==
    /\ "logEvents" \notin DOMAIN givenOptions
    /\ Truthy(options.eventCallback)
    /\ Len(eventLog) = 2
    /\ Len(callbackLog) = 2
    /\ callbackLog[2].event = eventLog[2]
    /\ callbackLog[2].log = eventLog

-----------------------------------------------------------------------------
(* C17 *)

\* C17: clearEventLog empties the log; every other call keeps the events
\* that are in the log, in their order: getEventLog and exportEvents leave
\* the log as it is, a validate call leaves it or appends one event, and with
\* logEvents true a returning call appends its event also when the same
\* event is in the log already and whatever the length of the log.
C17_AppendOnly ==
    [][/\ clearEventLog => eventLog' = <<>>
       /\ (~clearEventLog /\ ValidateStep) => (LogUntouched \/ AppendedOne)
       /\ (~clearEventLog /\ ~ValidateStep) => LogUntouched
       /\ (ReturnedStep /\ Truthy(options.logEvents)) => AppendedOne]_vars

C17_Witness ==
    /\ Len(eventLog) = 2
    /\ eventLog[1] = eventLog[2]
    /\ snapshot = <<eventLog[1]>>
    /\ exported # ""
    /\ exported # "[]"

-----------------------------------------------------------------------------
(* C18 *)

\* event e is the summary of result res of a call with attributes attrs
Summarizes(e, res, attrs) ==
    /\ e.type = "validation"
    /\ e.passed_count = Len(res.passed)
    /\ e.failed_count = Len(res.failed)
    /\ e.skipped_count = Len(res.skipped)
    /\ e.valid = res.valid
    /\ e.valid <=> e.failed_count = 0
    /\ Len(e.errors) = Len(res.errors)
    /\ \A i \in 1..Len(e.errors) :
          e.errors[i] = [field |-> res.errors[i].field,
                         message |-> res.errors[i].message]
    /\ Elems(e.attributes_provided) = DOMAIN attrs
    /\ Len(e.attributes_provided) = Cardinality(DOMAIN attrs)

\* C18: the event a validate call logs has type 'validation', the three
\* counts equal to the lengths of passed, failed and skipped of the result
\* returned, valid equal to the result's valid (true exactly when
\* failed_count is 0), one {field, message} entry per error of the result in
\* the same order, and as attributes_provided the keys of the attributes
\* given, each once.
C18_EventSummarizesResult ==
    Returned =>
        /\ Len(eventLog) = 1
        /\ Summarizes(eventLog[1], result, attributes)

C18_Witness ==
    /\ Returned
    /\ Len(eventLog) = 1
    /\ eventLog[1].failed_count = 1
    /\ eventLog[1].skipped_count = 1
    /\ eventLog[1].passed_count = 1
    /\ Len(eventLog[1].errors) = 1
    /\ eventLog[1].attributes_provided = <<"age">>
    /\ ~eventLog[1].valid

-----------------------------------------------------------------------------
(* C19 *)

\* the ids validate put in passed, failed and skipped, list by list
Ids(list) == [i \in 1..Len(list) |-> list[i].id]
OutcomeIds(res) ==
    [passed |-> Ids(res.passed), failed |-> Ids(res.failed),
     skipped |-> Ids(res.skipped)]

\* an event apart from its timestamp and duration_ms
Scrub(e) == [e EXCEPT !.timestamp = 0, !.duration_ms = 0]

\* attribute mapping B has the keys of the attributes validated and gives
\* every rule of the ruleset the same outcome
SameKeysAndOutcomes(B) ==
    /\ DOMAIN B = DOMAIN attributes
    /\ ~Walk(ruleset, B, 0).threw
    /\ OutcomeIds(Walk(ruleset, B, 0).res) = OutcomeIds(result)

EventFields ==
    {"type", "timestamp", "service_id", "valid", "passed_count", "failed_count",
     "skipped_count", "duration_ms", "errors", "attributes_provided"}

\* C19: the event logged for a ruleset and attributes is, apart from
\* timestamp and duration_ms, the event of every other attribute mapping with
\* the same keys and the same outcome for every rule; it has the ten fields
\* of an event, its errors have a field and a message only, each message
\* being one the ruleset determines, and attributes_provided holds keys.
C19_NoValueLeak ==
    Returned =>
        /\ Len(eventLog) = 1
        /\ \A B \in AttrMaps :
              SameKeysAndOutcomes(B) =>
                 Scrub(createEvent(Finalize(Walk(ruleset, B, 0).res, 0)))
                    = Scrub(eventLog[1])
        /\ DOMAIN eventLog[1] = EventFields
        /\ \A i \in 1..Len(eventLog[1].errors) :
              /\ DOMAIN eventLog[1].errors[i] = {"field", "message"}
              /\ \E n \in AllNodes :
                    eventLog[1].errors[i] = [field |-> n.key,
                                             message |-> ErrorMessage(n)]
        /\ Elems(eventLog[1].attributes_provided) \subseteq Keys

C19_Witness ==
    /\ Returned
    /\ Len(eventLog) = 1
    /\ Len(result.failed) > 0
    /\ Len(result.passed) > 0
    /\ \E B \in AttrMaps :
          /\ SameKeysAndOutcomes(B)
          /\ \E k \in DOMAIN B : B[k] # attributes[k]

-----------------------------------------------------------------------------
(* C20 *)

\* C20: a validate call leaves the ruleset, nested rules included, and the
\* attribute mapping as they were handed to it; in the result it returns,
\* changes holds the key/value pairs of the attributes in an object of its
\* own and data is the ruleset object itself.
C20_InputsUnchanged ==
    [][ValidateStep =>
          /\ ruleset' = ruleset
          /\ attributes' = attributes
          /\ status' = "returned" =>
                /\ result'.changes = attributes
                /\ result'.identity.changes \notin {"attributes", "ruleset"}
                /\ result'.data = ruleset
                /\ result'.identity.data = "ruleset"]_vars

C20_Witness ==
    /\ Returned
    /\ Cardinality(DOMAIN attributes) = 2
    /\ \E r \in TopRules : "conditions" \in DOMAIN r /\ "any_of" \in DOMAIN r
    /\ Len(result.passed) > 0
    /\ Len(result.failed) > 0
    /\ result.changes = attributes
    /\ result.data = ruleset

-----------------------------------------------------------------------------
(* Vocabulary of the claims about the walk *)

\* the nodes below n: its conditions, its alternatives and what is below them
Below(n) == NodesOf(n) \ {n}

\* n is in passed on its own condition
PassedOnOwn(n) ==
    /\ Count(result.passed, n.id) = 1
    /\ "satisfied_by" \notin DOMAIN RecordOf(result.passed, n)

\* path a comes before path b in a depth-first pre-order walk: a is a proper
\* prefix of b, or a is smaller at the first position where they differ
PathBefore(a, b) ==
    \E k \in 1..Len(b) :
        /\ \A j \in 1..(k - 1) : j <= Len(a) /\ a[j] = b[j]
        /\ k > Len(a) \/ a[k] < b[k]

\* the records of list are in traversal order
InTraversalOrder(list) ==
    \A i, j \in 1..Len(list) : i < j => PathBefore(list[i].id, list[j].id)

-----------------------------------------------------------------------------
(* C21 *)

\* C21: a rule whose key is not in the attributes and whose operator is not
\* not_exists is not evaluated and not in passed, also when one of its
\* alternatives is true; no node below it is entered, evaluated or recorded.
C21_MissingStopsNode ==
    Returned =>
        \A n \in EnteredNodes :
            (KeyAbsent(n) /\ n.operator # "not_exists") =>
                /\ ~Evaluated(n)
                /\ Count(result.passed, n.id) = 0
                /\ \A m \in Below(n) :
                      /\ m \notin EnteredNodes
                      /\ ~Evaluated(m)
                      /\ Recorded(m.id) = 0

C21_Witness ==
    /\ Returned
    /\ \E n \in TopRules :
          /\ KeyAbsent(n) /\ n.operator # "not_exists"
          /\ "conditions" \in DOMAIN n /\ Len(n.conditions) > 0
          /\ AlternativeTrue(n)
          /\ In(result.skipped, n.id)

-----------------------------------------------------------------------------
(* C22 *)

\* C22: a rule nested under conditions is entered or recorded only if its
\* parent is in passed on its own condition; an alternative is evaluated only
\* if the condition of its parent was evaluated and is false.
C22_DescentGated ==
    status # "idle" =>
        \A p \in AllNodes :
            /\ "conditions" \in DOMAIN p =>
                  \A c \in Elems(p.conditions) :
                      /\ c \in EnteredNodes => Evaluated(p) /\ ConditionTrue(p)
                      /\ (Returned /\ Recorded(c.id) > 0) => PassedOnOwn(p)
            /\ "any_of" \in DOMAIN p =>
                  \A a \in Elems(p.any_of) :
                      Evaluated(a) => Evaluated(p) /\ ConditionFalse(p)

C22_Witness ==
    /\ Returned
    /\ \E p \in TopRules :
          /\ "conditions" \in DOMAIN p /\ Len(p.conditions) > 0
          /\ "any_of" \in DOMAIN p
          /\ In(result.failed, p.id)
          /\ \E a \in Elems(p.any_of) : Evaluated(a)
          /\ \A c \in Elems(p.conditions) : c \notin EnteredNodes

-----------------------------------------------------------------------------
(* C23 *)

\* C23: the rules are entered in depth-first pre-order, left to right, and
\* the records of passed, failed and skipped stand in that order; errors
\* follows failed entry by entry.
C23_TraversalOrder ==
    status # "idle" =>
        /\ \A i, j \in 1..Len(trace.entered) :
              i < j => PathBefore(trace.entered[i], trace.entered[j])
        /\ Returned =>
              /\ InTraversalOrder(result.passed)
              /\ InTraversalOrder(result.failed)
              /\ InTraversalOrder(result.skipped)
              /\ ErrorsPaired

C23_Witness ==
    /\ Returned
    /\ Len(ruleset.rules) = 2
    /\ Len(result.passed) = 3
    /\ Len(result.passed[1].id) = 1
    /\ Len(result.passed[2].id) = 3
    /\ result.passed[3].id = <<2>>

-----------------------------------------------------------------------------
(* C24 *)

\* the attribute of n is present and not null
Present(n) == ValueOf(n) \notin {Undefined, Null}

\* rule n without the operands value and values
WithoutOperands(n) == [f \in DOMAIN n \ {"value", "values"} |-> n[f]]

\* n is recorded as a failing rule of its requirement: nowhere when
\* optional, else once in failed, with a severity only when disqualifying
FailedByRequirement(n) ==
    /\ Count(result.passed, n.id) = 0
    /\ Count(result.skipped, n.id) = 0
    /\ IF Requirement(n) = Str("optional")
       THEN Count(result.failed, n.id) = 0
       ELSE /\ Count(result.failed, n.id) = 1
            /\ ("severity" \in DOMAIN RecordOf(result.failed, n))
                  <=> Requirement(n) = Str("disqualifying")

\* C24: a not_exists rule is never skipped; it is in passed when its
\* attribute is absent or null and, having no satisfying alternative, is
\* recorded as its requirement records a failure when the attribute is present
\* and not null.  An exists rule is in passed on its own condition exactly
\* when its attribute is present and not null, and its condition answers the
\* same with and without rule.value and rule.values.
C24_PresenceOperators ==
    Returned =>
        \A n \in EnteredNodes :
            /\ n.operator = "not_exists" =>
                  /\ Count(result.skipped, n.id) = 0
                  /\ Evaluated(n)
                  /\ ~Present(n) => PassedOnOwn(n) /\ Recorded(n.id) = 1
                  /\ (Present(n) /\ ~AlternativeTrue(n)) => FailedByRequirement(n)
            /\ n.operator = "exists" =>
                  /\ PassedOnOwn(n) <=> Present(n)
                  /\ evaluateCondition(n, ValueOf(n))
                        = evaluateCondition(WithoutOperands(n), ValueOf(n))

C24_Witness ==
    /\ Returned
    /\ Len(ruleset.rules) = 2
    /\ \E n \in TopRules :
          /\ n.operator = "exists" /\ "values" \in DOMAIN n
          /\ ValueOf(n) = Num(65) /\ n.value = Num(66)
          /\ PassedOnOwn(n)
    /\ \E n \in TopRules :
          /\ n.operator = "not_exists" /\ Present(n)
          /\ Requirement(n) = Str("disqualifying")
          /\ RecordOf(result.failed, n).severity = "disqualifying"

-----------------------------------------------------------------------------
(* C25 *)

\* the nodes evaluateRule can reach from rule: the rule and, through
\* conditions only, the rules nested under it
RECURSIVE RuleNodesOf(_)
RuleNodesOf(rule) ==
    {rule}
    \cup (IF "conditions" \in DOMAIN rule
          THEN UNION {RuleNodesOf(c) : c \in Elems(rule.conditions)} ELSE {})

RuleNodes == UNION {RuleNodesOf(r) : r \in TopRules}

Max(S) == IF S = {} THEN 0 ELSE CHOOSE m \in S : \A x \in S : x <= m

\* levels of rules nested through conditions, the rule itself being one
RECURSIVE DepthOf(_)
DepthOf(rule) ==
    1 + (IF "conditions" \in DOMAIN rule
         THEN Max({DepthOf(c) : c \in Elems(rule.conditions)}) ELSE 0)

NestingDepth == Max({DepthOf(r) : r \in TopRules})

\* the rule-by-rule walk is within the size of the ruleset: evaluateRule was
\* entered at most once for each rule reachable through rules and conditions
\* and for no other, no more calls of it are running than the ruleset nests
\* rules, and there are no more records than such rules
WalkBounded ==
    /\ \A i \in 1..Len(walk.entered) :
          /\ \E n \in RuleNodes : n.id = walk.entered[i]
          /\ \A j \in 1..Len(walk.entered) :
                walk.entered[i] = walk.entered[j] => i = j
    /\ Len(stack) <= NestingDepth + 1
    /\ walk.depth <= NestingDepth /\ walk.deepest <= NestingDepth
    /\ Len(walk.res.passed) + Len(walk.res.failed) + Len(walk.res.skipped)
          <= Cardinality(RuleNodes)

\* the call has ended, and rule by rule it did what validate does
Ended ==
    /\ status \in {"returned", "threw"}
    /\ stack = <<>>
    /\ Leave(walk, 0) = Walk(ruleset, attributes, walk.res.timestamp)
    /\ Returned => result = Finalize(walk.res, result.duration_ms)

\* C25: every validate call ends, and all through it evaluateRule is entered
\* at most once for each rule reachable through rules and conditions and for
\* no other, its recursion is never deeper than the nesting of the ruleset,
\* and passed, failed and skipped together hold at most one record for each
\* of those rules.
C25_TerminatesWithinTree ==
    /\ (status = "walking") ~> Ended
    /\ [](status # "idle" => WalkBounded)

C25_Witness ==
    /\ Ended /\ Returned
    /\ NestingDepth = 3
    /\ walk.deepest = 3
    /\ Len(walk.entered) = Cardinality(RuleNodes)
    /\ Cardinality(AllNodes) > Cardinality(RuleNodes)
    /\ Len(result.passed) + Len(result.failed) + Len(result.skipped)
          = Cardinality(RuleNodes)

-----------------------------------------------------------------------------
(* C26 *)

\* the unit as the expectation shows it after a value
UnitSuffix(n) == IF Given(n, "unit") THEN " " \o n.unit.s ELSE ""

\* the values of n as 'one of [..]' lists them
Listed(n) == IF "values" \in DOMAIN n THEN Join(n.values, 1) ELSE "undefined"

\* the sign of a comparison
Sign(operator) ==
    CASE operator = "less_than" -> "<"
      [] operator = "less_than_or_equal" -> "<="
      [] operator = "greater_than" -> ">"
      [] operator = "greater_than_or_equal" -> ">="

\* the table of expectations, operator by operator; an operator outside the
\* table shows rule.value as it is
Expected(n) ==
    CASE n.operator = "equals" -> Str(ToStr(n.value) \o UnitSuffix(n))
      [] n.operator = "not_equals" ->
            Str("not " \o ToStr(n.value) \o UnitSuffix(n))
      [] n.operator \in NumericOperators \ {"between"} ->
            Str(Sign(n.operator) \o " " \o ToStr(n.value) \o UnitSuffix(n))
      [] n.operator = "in" -> Str("one of [" \o Listed(n) \o "]")
      [] n.operator = "not_in" -> Str("not one of [" \o Listed(n) \o "]")
      [] n.operator = "between" ->
            Str("between " \o ToStr(n.min) \o " and " \o ToStr(n.max)
                \o UnitSuffix(n))
      [] n.operator = "exists" -> Str("exists")
      [] n.operator = "not_exists" -> Str("does not exist")
      [] OTHER -> Get(n, "value")

\* C26: every record in failed has as expected the entry of the table for the
\* operator of its rule: the value for equals, 'not <value>', the sign and
\* the value for the comparisons, 'one of [..]', 'not one of [..]',
\* 'between <min> and <max>', 'exists', 'does not exist', and the pattern as
\* it is for matches; a unit, when the rule has one, follows the value.
C26_ExpectedPerOperator ==
    Returned =>
        \A n \in AllNodes :
            In(result.failed, n.id) =>
                RecordOf(result.failed, n).expected = Expected(n)

C26_Witness ==
    /\ Returned
    /\ attributes = [age |-> Num(66)]
    /\ \E n \in TopRules :
          /\ n.operator = "less_than_or_equal" /\ n.value = Num(65)
          /\ "unit" \notin DOMAIN n
          /\ result.failed[1].id = n.id
          /\ result.failed[1].expected = Str("<= 65")

-----------------------------------------------------------------------------
(* C27 *)

\* C27: in every result validate returns errors and failed have the same
\* length and errors[i].field = failed[i].key at every index i: every error
\* has its failed record and every failed record its error.
C27_ErrorsAligned ==
    Returned =>
        /\ Len(result.errors) = Len(result.failed)
        /\ \A i \in 1..Len(result.failed) :
              /\ result.errors[i].field = result.failed[i].key
              /\ \E n \in AllNodes :
                    /\ n.id = result.failed[i].id
                    /\ result.errors[i] = ErrorRecord(n)

C27_Witness ==
    /\ Returned
    /\ Len(result.failed) = 2
    /\ Len(result.passed) > 0
    /\ result.errors[1].field = "age"
    /\ result.errors[2].field = "income"

-----------------------------------------------------------------------------
(* C28 *)

\* the operators the claim says are true, and false, on an absent key
TrueOnAbsent == {"not_equals", "not_in", "not_exists"}
FalseOnAbsent ==
    {"equals", "in", "exists", "between", "less_than", "less_than_or_equal",
     "greater_than", "greater_than_or_equal"}

\* n's own condition was evaluated and is false, and n has alternatives
FallsToAlternatives(n) ==
    /\ Evaluated(n) /\ ConditionFalse(n)
    /\ "any_of" \in DOMAIN n /\ Len(n.any_of) > 0

\* no alternative of n before position i is true
NoneTrueBefore(n, i) == \A j \in 1..(i - 1) : ~ConditionTrue(n.any_of[j])

\* C28: an any_of alternative whose key is absent from the attributes is
\* evaluated like any other: with operator not_equals, not_in or not_exists
\* its condition is true and the failing parent is in passed with
\* satisfied_by 'alternative'; with equals, in, exists, between or a numeric
\* comparison its condition is false, and a parent with only such
\* alternatives is not in passed.
C28_AlternativesUnguarded ==
    Returned =>
        \A n \in EnteredNodes :
            FallsToAlternatives(n) =>
                /\ \A i \in 1..Len(n.any_of) :
                      KeyAbsent(n.any_of[i]) =>
                          /\ NoneTrueBefore(n, i) => Evaluated(n.any_of[i])
                          /\ n.any_of[i].operator \in TrueOnAbsent =>
                                /\ ConditionTrue(n.any_of[i])
                                /\ Count(result.passed, n.id) = 1
                                /\ Recorded(n.id) = 1
                                /\ Get(RecordOf(result.passed, n), "satisfied_by")
                                      = "alternative"
                          /\ n.any_of[i].operator \in FalseOnAbsent =>
                                ConditionFalse(n.any_of[i])
                /\ (\A a \in Elems(n.any_of) :
                        KeyAbsent(a) /\ a.operator \in FalseOnAbsent)
                      => Count(result.passed, n.id) = 0

C28_Witness ==
    /\ Returned
    /\ \E n \in TopRules :
          /\ FallsToAlternatives(n)
          /\ Len(n.any_of) = 1
          /\ KeyAbsent(n.any_of[1])
          /\ n.any_of[1].operator = "not_equals"
          /\ Evaluated(n.any_of[1])
          /\ RecordOf(result.passed, n).satisfied_by = "alternative"

-----------------------------------------------------------------------------
(* C29 *)

\* the step is a getEventLog call, an exportEvents call, a change the caller
\* makes to the list it was returned
GetStep == getEventLog
ExportStep == exportEvents
CallerStep == AddToReturned \/ RemoveFromReturned

Reverse(list) == [i \in 1..Len(list) |-> list[Len(list) + 1 - i]]

\* the lists a text of the log could be mistaken to describe: the list
\* returned last, the log, its parts, the log in reverse
Candidates ==
    {snapshot, eventLog, Reverse(eventLog), <<>>}
    \cup {SubSeq(eventLog, i, j) : i, j \in 1..Len(eventLog)}

\* C29: getEventLog returns the log as it is and leaves it unchanged; the
\* list returned changes with no later validate, clearEventLog or
\* exportEvents call; adding to or removing from that list leaves the log
\* unchanged; exportEvents leaves the log unchanged and returns the text of
\* exactly the list getEventLog returns, events in the same order.
C29_SnapshotAndExport ==
    [][/\ GetStep => snapshot' = eventLog /\ eventLog' = eventLog
       /\ (ValidateStep \/ clearEventLog \/ ExportStep) => snapshot' = snapshot
       /\ CallerStep => eventLog' = eventLog
       /\ ExportStep =>
             /\ eventLog' = eventLog
             /\ \A list \in Candidates :
                   exported' = JSONStringify(list) <=> list = eventLog]_vars

C29_Witness ==
    /\ Len(eventLog) = 2
    /\ eventLog[1] # eventLog[2]
    /\ Len(snapshot) = 2
    /\ snapshot[1] = eventLog[1]
    /\ snapshot[2] = CallerEvent
    /\ exported = JSONStringify(eventLog)

-----------------------------------------------------------------------------
(* C30 *)

\* C30: with two engine instances and the calls going to either in any
\* order, a validate or clearEventLog call on one instance leaves the event
\* log of the other as it is; the log of the instance called grows by the
\* event of the call or is emptied.
C30_OwnLog ==
    [][/\ (ValidateStep \/ clearEventLog) => peer' = peer
       /\ ValidateStep =>
             eventLog' = IF Truthy(options.logEvents) /\ status' = "returned"
                         THEN Append(eventLog, createEvent(result'))
                         ELSE eventLog
       /\ clearEventLog => eventLog' = <<>>]_vars

C30_Witness ==
    /\ calls = 2
    /\ Truthy(options.logEvents) /\ Truthy(peer.options.logEvents)
    /\ eventLog = <<>>
    /\ Len(peer.eventLog) = 1
    /\ Len(history) = 2
    /\ history[1].status = "returned" /\ history[2].status = "returned"

====
